---- MODULE Spec2Model ----
(***************************************************************************)
(* Verification model of the ForTunnels client data plane.                 *)
(*                                                                         *)
(*   Part I    session manager (dataplane.Manager): EnsureSession, Close,  *)
(*             reconnect backoff                                           *)
(*                                                                         *)
(*   Part II   stream encryption (security.ClientPSK, security.ClientAEAD)  *)
(*             and dataplane.WrapClientStream                              *)
(*   Part III  UDP framing on a reliable stream (writeUDPPacket,           *)
(*             readUDPPacket)                                              *)
(*                                                                         *)
(* time.Duration is a signed 64-bit integer.  The model keeps the two's    *)
(* complement wrap-around of Duration arithmetic but scales the width      *)
(* down to DurationBits bits.                                              *)
(***************************************************************************)
EXTENDS Integers, Sequences, FiniteSets, TLC

(***************************************************************************)
(* Bounds of the model.                                                    *)
(***************************************************************************)
NumProcs == 2
MaxConns == 2
MaxCount == 2
DurationBits == 3
NumStreams == 2
MaxWrites == 2
MaxPtLen == 2
MaxSmallLen == 2
MaxFrames == 2
MaxWsMsgs == 2
NumFlows == 2
MaxValLen == 2
MaxTokens == 4

VARIABLES
    \* ---- Part I: dataplane.Manager and its callers
    boInit, boMax, urlValid,          \* Manager.boInit, Manager.boMax, serverURL parses
    mu,                               \* Manager.mu: 0 when free, else the holder
    stopped, sess, conn,              \* Manager.stopped, Manager.sess, Manager.conn
    created, closedSess, closedConn,  \* smux sessions made, sessions / sockets closed
    nconns,                           \* websocket connections opened so far
    pc, backoff, res,                 \* per goroutine: position, local backoff, last result
    callInfo,                         \* per goroutine: facts recorded about the current call
    closeReturned, sessSleeps,        \* a Close has returned; sleeps of the call that made sess
    \* ---- Part II: stream encryption
    encEnabled, encPSK, tunnelID,     \* EncryptionSettings.Enabled, .PSK; the run's tunnel id
    aead,                             \* per stream: what WrapClientStream returned
    wire, wend,                       \* per stream: bytes written to the base stream; its end
    seals,                            \* every aead.Seal call so far, in order
    sent,                             \* per stream: the Write calls made, in order
    peer, got,                        \* per stream: the reading ClientAEAD; its Read results
    \* ---- Part III: UDP framing
    udpWire, udpEnded,                \* bytes on the stream; no more will come
    udpSent,                          \* the writeUDPPacket calls made, in order
    udpPos, udpGot,                   \* bytes the reader consumed; the readUDPPacket results
    \* ---- Part IV: the ping goroutine of a session
    ping,                             \* per connection: where its ping goroutine is, what it read
    pingRead,                         \* how m.mu stood when a ping goroutine last read m.sess
    \* ---- Part V: the stream bridge (PipeStreams)
    brEnded,                          \* per copy direction: running, or the error io.CopyBuffer returned
    brLogged,                         \* the copy directions that wrote an error log line
    \* ---- Part VI: the WebSocket adapter (wsconn.WSConn)
    wsIn, wsEnd,                      \* messages received and not yet opened; how the connection stands
    wsCur,                            \* WSConn.currReader: whether set, bytes left in its message
    wsOut,                            \* the sizes of the binary messages written
    wsRes,                            \* the last Read or Write call and what it returned
    \* ---- Part VII: QUIC datagram mode (StartQUICDataPlaneUDP)
    flowMap,                          \* the keys of flowMap (the value of a key is the address it spells)
    qSnd,                             \* the sender loop: where it is, the flow of the packet in hand
    qRcv,                             \* the receiver goroutine: where it is, the flow it looks up, whether a write overlapped
    qFwd,                             \* what the last lookup of the receiver gave
    \* ---- Part VIII: the sources of a secret (applySecretSource)
    secIn,                            \* one secret: its label, flag value, file, stdin and environment
    secOut,                           \* whether applySecretSource ran, the value it left, the error it returned
    \* ---- Part IX: the stream preface (encodePreface, readStreamDestination)
    pfMap,                            \* the map given to encodePreface
    pfOut,                            \* the line encodePreface gave and what readStreamDestination read from it
    inTokens,                         \* what an inbound stream holds before it ends
    srv,                              \* serveIncomingStream: whether it returned, its error, what it dialed, the stream closed
    \* ---- Part X: the drivers that open outbound streams
    drvCfg,                           \* the driver this process runs and its enc.Enabled
    drv,                              \* per outbound stream: where its driver is, the Write calls made on it
    \* ---- Part XI: the UDP forwarder (startUDPLocalToStream, startStreamToUDPLocal)
    fwMain,                           \* the driver: waiting on errCh or returned, with its error; deferred closes ran
    fwUp, fwDown,                     \* the local-to-stream and the stream-to-local goroutine
    errCh,                            \* the errors in the channel, oldest first
    lastSrc, lastSrcMu,               \* *lastSrc; the RWMutex: held for writing, number of readers
    fwOut,                            \* the frames written to the stream: header bytes, payload bytes written
    fwSent,                           \* the frames read from the stream: address looked up, whether sent there
    \* ---- Part XII: one bridged connection (serve_listen, serveIncomingStream)
    hdMode, hdBuffered,               \* which handler runs; payload arrived with the preface
    hdMain,                           \* where the handler's goroutine is
    hdCopy,                           \* per copy direction: where its goroutine is
    hdDone,                           \* the number of completions in the done channel
    hdEnds,                           \* per endpoint: its peer closed, the client closed it
    \* ---- Part XIII: a parallel echo run (runParallelQUICStreams, StartDataPlaneParallel)
    parRun,                           \* over QUIC streams or over smux streams
    parTask,                          \* per stream task: where it is, whether it failed, whether its echo read met end-of-stream
    retErr,                           \* the slice of errors, one slot per task
    wg,                               \* the WaitGroup counter
    parRet,                           \* whether the run returned, and its error
    \* ---- Part XIV: frames in transit
    transit,                          \* what the transport did to the frames of stream 1
    \* ---- Part XVI: the bytes WSConn.Read returns
    wsArrived,                        \* every message that arrived: its type and size
    wsBytes,                          \* the bytes the Read calls returned, each the place of its message and its place in it
    \* ---- Part XVII: WSConn.Close
    wsClose,                          \* whether Close returned, what sending the close frame gave, the socket closed, the error returned
    \* ---- Part XVIII: an inbound stream read as it arrives
    rdOut,                            \* what readStreamDestination gave on the stream of inTokens
    inb,                              \* serveIncomingStream: where it is, the bytes the reader took and gave out, the bytes written to the backend
    \* ---- Part XIX: StartDataPlaneServeIncoming
    si,                               \* the accept loop: where it is, its session, its sleeps, the stream goroutines running and failed
    \* ---- Part XX: control.ConnectWebSocket
    done,                             \* the channel done and doneOnce: closed, Do has run, the close calls made, the places that called Do
    cw                                \* where the ping loop, the reader, the fallback watcher and the ack waiter are; pending ticks and channel values

mgrVars == <<boInit, boMax, urlValid, mu, stopped, sess, conn, created, closedSess,
             closedConn, nconns, pc, backoff, res, callInfo, closeReturned, sessSleeps>>
aeadVars == <<encEnabled, encPSK, tunnelID, aead, wire, wend, seals, sent, peer, got>>
udpVars == <<udpWire, udpEnded, udpSent, udpPos, udpGot>>
pingVars == <<ping, pingRead>>
brVars == <<brEnded, brLogged>>
wsVars == <<wsIn, wsEnd, wsCur, wsOut, wsRes>>
quicVars == <<flowMap, qSnd, qRcv, qFwd>>
secVars == <<secIn, secOut>>
pfVars == <<pfMap, pfOut, inTokens, srv>>
drvVars == <<drvCfg, drv>>
fwVars == <<fwMain, fwUp, fwDown, errCh, lastSrc, lastSrcMu, fwOut, fwSent>>
hdVars == <<hdMode, hdBuffered, hdMain, hdCopy, hdDone, hdEnds>>
parVars == <<parRun, parTask, retErr, wg, parRet>>
trVars == <<transit>>
wbVars == <<wsArrived, wsBytes>>
wcVars == <<wsClose>>
inVars == <<rdOut, inb>>
siVars == <<si>>
cwVars == <<done, cw>>
restVars == <<pingVars, brVars, wsVars, quicVars, secVars, pfVars, drvVars, fwVars, hdVars, parVars, trVars, wbVars, wcVars, inVars, siVars, cwVars>>
vars == <<mgrVars, aeadVars, udpVars, restVars>>

\* everything but one part
notPing == <<mgrVars, aeadVars, udpVars, brVars, wsVars, quicVars, secVars, pfVars,
             drvVars, fwVars, hdVars, parVars, trVars, wbVars, wcVars, inVars, siVars, cwVars>>
notBr == <<mgrVars, aeadVars, udpVars, pingVars, wsVars, quicVars, secVars, pfVars,
           drvVars, fwVars, hdVars, parVars, trVars, wbVars, wcVars, inVars, siVars, cwVars>>
notWs == <<mgrVars, aeadVars, udpVars, pingVars, brVars, quicVars, secVars, pfVars,
           drvVars, fwVars, hdVars, parVars, trVars, wbVars, wcVars, inVars, siVars, cwVars>>
notQuic == <<mgrVars, aeadVars, udpVars, pingVars, brVars, wsVars, secVars, pfVars,
             drvVars, fwVars, hdVars, parVars, trVars, wbVars, wcVars, inVars, siVars, cwVars>>
notSec == <<mgrVars, aeadVars, udpVars, pingVars, brVars, wsVars, quicVars, pfVars,
            drvVars, fwVars, hdVars, parVars, trVars, wbVars, wcVars, inVars, siVars, cwVars>>
notPf == <<mgrVars, aeadVars, udpVars, pingVars, brVars, wsVars, quicVars, secVars,
           drvVars, fwVars, hdVars, parVars, trVars, wbVars, wcVars, inVars, siVars, cwVars>>
notDrv == <<mgrVars, aeadVars, udpVars, pingVars, brVars, wsVars, quicVars, secVars,
            pfVars, fwVars, hdVars, parVars, trVars, wbVars, wcVars, inVars, siVars, cwVars>>
notFw == <<mgrVars, aeadVars, udpVars, pingVars, brVars, wsVars, quicVars, secVars,
           pfVars, drvVars, hdVars, parVars, trVars, wbVars, wcVars, inVars, siVars, cwVars>>
notHd == <<mgrVars, aeadVars, udpVars, pingVars, brVars, wsVars, quicVars, secVars,
           pfVars, drvVars, fwVars, parVars, trVars, wbVars, wcVars, inVars, siVars, cwVars>>
notPar == <<mgrVars, aeadVars, udpVars, pingVars, brVars, wsVars, quicVars, secVars,
            pfVars, drvVars, fwVars, hdVars, trVars, wbVars, wcVars, inVars, siVars, cwVars>>
notTr == <<mgrVars, aeadVars, udpVars, pingVars, brVars, wsVars, quicVars, secVars,
           pfVars, drvVars, fwVars, hdVars, parVars, wbVars, wcVars, inVars, siVars, cwVars>>
notWb == <<mgrVars, aeadVars, udpVars, pingVars, brVars, wsVars, quicVars, secVars,
           pfVars, drvVars, fwVars, hdVars, parVars, trVars, wcVars, inVars, siVars, cwVars>>
notWc == <<mgrVars, aeadVars, udpVars, pingVars, brVars, wsVars, quicVars, secVars,
           pfVars, drvVars, fwVars, hdVars, parVars, trVars, wbVars, inVars, siVars, cwVars>>
notIn == <<mgrVars, aeadVars, udpVars, pingVars, brVars, wsVars, quicVars, secVars,
           pfVars, drvVars, fwVars, hdVars, parVars, trVars, wbVars, wcVars, siVars, cwVars>>
notSi == <<mgrVars, aeadVars, udpVars, pingVars, brVars, wsVars, quicVars, secVars,
           pfVars, drvVars, fwVars, hdVars, parVars, trVars, wbVars, wcVars, inVars, cwVars>>
notCw == <<mgrVars, aeadVars, udpVars, pingVars, brVars, wsVars, quicVars, secVars,
           pfVars, drvVars, fwVars, hdVars, parVars, trVars, wbVars, wcVars, inVars, siVars>>

(***************************************************************************)
(* time.Duration arithmetic                                                *)
(***************************************************************************)
Modulus == 2 ^ DurationBits
MaxDuration == (Modulus \div 2) - 1
MinDuration == 0 - (Modulus \div 2)
Durations == 0..MaxDuration

\* two's complement wrap of a Duration product
WrapDuration(x) == ((x + (Modulus \div 2)) % Modulus) - (Modulus \div 2)

Min(a, b) == IF a < b THEN a ELSE b
Sat(n) == IF n < MaxCount THEN n + 1 ELSE MaxCount

nextBackoff(current, limit) ==
    LET next == WrapDuration(current * 2)
    IN  IF next > limit THEN limit ELSE next

(***************************************************************************)
(* Part I.  dataplane.Manager                                              *)
(***************************************************************************)
Procs == 1..NumProcs
NoSess == 0
NoConn == 0
Free == 0

NoResult == [kind |-> "none", s |-> NoSess, sinceClose |-> FALSE]
NoCall == [nsleeps |-> 0, slept |-> 0, sinceClose |-> FALSE, redial |-> FALSE]

\* NewManager: no I/O, nothing held, not stopped.  The backoff settings are
\* those the configuration validator lets through.
MgrInit ==
    /\ boInit \in 1..MaxDuration
    /\ boMax \in boInit..MaxDuration
    /\ urlValid \in BOOLEAN
    /\ mu = Free
    /\ stopped = FALSE
    /\ sess = NoSess
    /\ conn = NoConn
    /\ created = {}
    /\ closedSess = {}
    /\ closedConn = {}
    /\ nconns = 0
    /\ pc = [p \in Procs |-> "idle"]
    /\ backoff = [p \in Procs |-> 0]
    /\ res = [p \in Procs |-> NoResult]
    /\ callInfo = [p \in Procs |-> NoCall]
    /\ closeReturned = FALSE
    /\ sessSleeps = 0

MgrCfg == <<boInit, boMax, urlValid>>
notMgr == <<aeadVars, udpVars, restVars>>

\* the stopped test at the head of EnsureSession
EntryStopped_Off == FALSE
EntryStopped == stopped

\* m.sess != nil && !m.sess.IsClosed()
SessAlive_Never == FALSE
SessAlive_NotNil == sess # NoSess
SessAlive == sess # NoSess /\ sess \notin closedSess

\* backoff := m.boInit
InitialBackoff_Max == boMax
InitialBackoff == boInit

\* return from EnsureSession: the deferred Unlock, and the result handed back.
\* The locals of the call are dead from here on.
Return(p, kind, s) ==
    /\ mu' = Free
    /\ pc' = [pc EXCEPT ![p] = "idle"]
    /\ res' = [res EXCEPT ![p] = [kind |-> kind, s |-> s,
                                   sinceClose |-> callInfo[p].sinceClose]]
    /\ backoff' = [backoff EXCEPT ![p] = 0]
    /\ callInfo' = [callInfo EXCEPT ![p] = NoCall]

\* a goroutine calls EnsureSession and reaches m.mu.Lock()
CallEnsure(p) ==
    /\ pc[p] = "idle"
    /\ pc' = [pc EXCEPT ![p] = "ensure"]
    /\ callInfo' = [callInfo EXCEPT ![p] = [NoCall EXCEPT !.sinceClose = closeReturned]]
    /\ res' = [res EXCEPT ![p] = NoResult]
    /\ UNCHANGED <<MgrCfg, mu, stopped, sess, conn, created, closedSess, closedConn,
                   nconns, backoff, closeReturned, sessSleeps, notMgr>>

\* EnsureSession from the Lock up to the head of the retry loop
EnsureEnter(p) ==
    /\ pc[p] = "ensure"
    /\ mu = Free
    /\ IF EntryStopped
          THEN Return(p, "stopped", NoSess)
       ELSE IF SessAlive
          THEN Return(p, "session", sess)
       ELSE IF ~urlValid
          THEN Return(p, "invalid websocket url", NoSess)
       ELSE /\ mu' = p
            /\ pc' = [pc EXCEPT ![p] = "loop"]
            /\ backoff' = [backoff EXCEPT ![p] = InitialBackoff]
            /\ callInfo' = [callInfo EXCEPT ![p].redial = (sess # NoSess)]
            /\ UNCHANGED res
    /\ UNCHANGED <<MgrCfg, stopped, sess, conn, created, closedSess, closedConn,
                   nconns, closeReturned, sessSleeps, notMgr>>

\* initializeSession on a fresh connection c, smux.Client succeeding: the
\* manager takes the connection and the session over it
InitializeSession(c) ==
    /\ conn' = c
    /\ sess' = c
    /\ created' = created \cup {c}

\* one pass of the retry loop: the stopped test, the dial and initializeSession.
\* dialed: the websocket dial succeeded; inited: smux.Client succeeded.
EnsureLoop(p, dialed, inited) ==
    /\ pc[p] = "loop"
    /\ mu = p
    /\ IF stopped
          THEN /\ Return(p, "stopped", NoSess)
               /\ UNCHANGED <<sess, conn, created, closedConn, nconns, sessSleeps>>
       ELSE IF ~dialed
          THEN /\ pc' = [pc EXCEPT ![p] = "sleep"]
               /\ UNCHANGED <<mu, res, sess, conn, created, closedConn, nconns,
                              sessSleeps, backoff, callInfo>>
       ELSE /\ nconns < MaxConns
            /\ nconns' = nconns + 1
            /\ IF inited
                  THEN /\ InitializeSession(nconns + 1)
                       /\ sessSleeps' = callInfo[p].nsleeps
                       /\ Return(p, "session", nconns + 1)
                       /\ UNCHANGED closedConn
                  ELSE /\ closedConn' = closedConn \cup {nconns + 1}
                       /\ pc' = [pc EXCEPT ![p] = "sleep"]
                       /\ UNCHANGED <<mu, res, sess, conn, created, sessSleeps,
                                      backoff, callInfo>>
    /\ UNCHANGED <<MgrCfg, stopped, closedSess, closeReturned, notMgr>>

\* time.Sleep(backoff); backoff = nextBackoff(backoff, m.boMax)
EnsureSleep(p) ==
    /\ pc[p] = "sleep"
    /\ mu = p
    /\ pc' = [pc EXCEPT ![p] = "loop"]
    /\ callInfo' = [callInfo EXCEPT ![p].nsleeps = Sat(@), ![p].slept = backoff[p]]
    /\ backoff' = [backoff EXCEPT ![p] = nextBackoff(backoff[p], boMax)]
    /\ UNCHANGED <<MgrCfg, mu, stopped, sess, conn, created, closedSess, closedConn,
                   nconns, res, closeReturned, sessSleeps, notMgr>>

\* a goroutine calls Close and reaches m.mu.Lock()
CallClose(p) ==
    /\ pc[p] = "idle"
    /\ pc' = [pc EXCEPT ![p] = "close"]
    /\ res' = [res EXCEPT ![p] = NoResult]
    /\ UNCHANGED <<MgrCfg, mu, stopped, sess, conn, created, closedSess, closedConn,
                   nconns, backoff, callInfo, closeReturned, sessSleeps, notMgr>>

\* m.sess = nil at the end of Close
SessAfterClose_Kept == sess
SessAfterClose == NoSess

\* the body of Close, under the lock
CloseRun(p) ==
    /\ pc[p] = "close"
    /\ mu = Free
    /\ stopped' = TRUE
    /\ closedSess' = IF sess # NoSess THEN closedSess \cup {sess} ELSE closedSess
    /\ closedConn' = IF conn # NoConn THEN closedConn \cup {conn} ELSE closedConn
    /\ sess' = SessAfterClose
    /\ conn' = NoConn
    /\ closeReturned' = TRUE
    /\ pc' = [pc EXCEPT ![p] = "idle"]
    /\ res' = [res EXCEPT ![p] = [NoResult EXCEPT !.kind = "closed"]]
    /\ UNCHANGED <<MgrCfg, mu, created, nconns, backoff, callInfo, sessSleeps, notMgr>>

\* the transport of a session fails or the server closes it: IsClosed turns true
SessionFail(s) ==
    /\ s \in created \ closedSess
    /\ closedSess' = closedSess \cup {s}
    /\ closedConn' = closedConn \cup {s}
    /\ UNCHANGED <<MgrCfg, mu, stopped, sess, conn, created, nconns, pc, backoff, res,
                   callInfo, closeReturned, sessSleeps, notMgr>>

\* the steps a goroutine takes once it is inside EnsureSession or Close
MgrStep(p) ==
    \/ EnsureEnter(p)
    \/ \E dialed, inited \in BOOLEAN : EnsureLoop(p, dialed, inited)
    \/ EnsureSleep(p)
    \/ CloseRun(p)

\* the manager part at rest, for the specifications of the other parts
MgrIdle ==
    /\ boInit = 1 /\ boMax = 1 /\ urlValid = TRUE
    /\ mu = Free /\ stopped = FALSE /\ sess = NoSess /\ conn = NoConn
    /\ created = {} /\ closedSess = {} /\ closedConn = {} /\ nconns = 0
    /\ pc = [p \in Procs |-> "idle"]
    /\ backoff = [p \in Procs |-> 0]
    /\ res = [p \in Procs |-> NoResult]
    /\ callInfo = [p \in Procs |-> NoCall]
    /\ closeReturned = FALSE /\ sessSleeps = 0

(***************************************************************************)
(* Part II.  security.ClientPSK / ClientAEAD and dataplane.WrapClientStream *)
(*                                                                         *)
(* Byte strings are sequences.  An element of a base stream is a byte      *)
(* 0..255 or, for a byte of ciphertext, CtBase + a code naming the Seal    *)
(* call that made it and its place in that ciphertext.  XChaCha20-Poly1305 *)
(* is taken as ideal: a ciphertext opens only whole, and only under the    *)
(* key and the nonce it was sealed with.  SHA-256 is taken as collision    *)
(* free: a key is the byte string that was hashed.                         *)
(***************************************************************************)
Streams == 1..NumStreams
NonceSize == 24
Overhead == 16
LenSize == 4
CtBase == 256
CtSpan == MaxPtLen + Overhead

PSKs == {<<>>, <<1>>, <<1, 2>>}
TunnelIDs == {<<2, 3>>, <<3>>}
Plaintexts == {[i \in 1..n |-> 6 + i] : n \in {0, 1, MaxPtLen}}
BufSizes == {1, MaxPtLen}

Zeros(n) == [i \in 1..n |-> 0]

\* binary.BigEndian.PutUint64 / PutUint32: n in k bytes, most significant first
RECURSIVE PutBigEndian(_, _)
PutBigEndian(n, k) ==
    IF k = 0 THEN <<>> ELSE Append(PutBigEndian(n \div 256, k - 1), n % 256)

\* binary.BigEndian.Uint32 / Uint16: the value of bytes, most significant first
RECURSIVE BigEndian(_)
BigEndian(b) ==
    IF Len(b) = 0 THEN 0
    ELSE BigEndian(SubSeq(b, 1, Len(b) - 1)) * 256 + b[Len(b)]

IsBytes(b) == \A i \in 1..Len(b) : b[i] < CtBase

\* sha256(secret || tunnelID)
DeriveKey(secret, tid) == secret \o tid

\* nonce := make([]byte, 24); PutUint64(nonce[16:], encCtr)
Nonce(ctr) == Zeros(NonceSize - 8) \o PutBigEndian(ctr, 8)

\* c.encCtr++, which Write does before it seals and writes
CtrOnlyOnSuccess(ctr, ok) == IF ok THEN ctr + 1 ELSE ctr
CtrAfterWrite(ctr, ok) == ctr + 1

\* aead.Seal(nil, nonce, p, nil) as the n-th Seal call: len(p) + Overhead bytes
Seal(n, p) == [i \in 1..(Len(p) + Overhead) |-> CtBase + (n - 1) * CtSpan + (i - 1)]

\* aead.Open(nil, nonce, buf, nil) under key
Opens_AnyKey(key, nonce, buf) ==
    {n \in 1..Len(seals) :
        /\ Len(buf) = Len(seals[n].pt) + Overhead
        /\ buf = Seal(n, seals[n].pt)
        /\ seals[n].nonce = nonce}
Opens_InOrder(key, nonce, buf) ==
    {n \in 1..Len(seals) :
        /\ Len(buf) = Len(seals[n].pt) + Overhead
        /\ buf = Seal(n, seals[n].pt)
        /\ seals[n].key = key
        /\ seals[n].nonce = nonce
        /\ nonce = Nonce(Len(got[1]))}
Opens(key, nonce, buf) ==
    {n \in 1..Len(seals) :
        /\ Len(buf) = Len(seals[n].pt) + Overhead
        /\ buf = Seal(n, seals[n].pt)
        /\ seals[n].key = key
        /\ seals[n].nonce = nonce}

\* the length field of a frame
FrameLenOfPlain(p, ct) == Len(p)
FrameLen(p, ct) == Len(ct)

\* hdr[:4] = len(ct), hdr[4:] = nonce
Header(p, ct, nonce) == PutBigEndian(FrameLen(p, ct), LenSize) \o nonce

NoAead == [made |-> FALSE, wrapped |-> FALSE, key |-> <<>>, encCtr |-> 0]
NoPeer == [made |-> FALSE, secret |-> <<>>, tid |-> <<>>, key |-> <<>>, pos |-> 0]

AeadIdle ==
    /\ encEnabled = FALSE
    /\ encPSK = <<>>
    /\ tunnelID = <<>>
    /\ aead = [w \in Streams |-> NoAead]
    /\ wire = [w \in Streams |-> <<>>]
    /\ wend = [w \in Streams |-> "open"]
    /\ seals = <<>>
    /\ sent = [w \in Streams |-> <<>>]
    /\ peer = [w \in Streams |-> NoPeer]
    /\ got = [w \in Streams |-> <<>>]

\* a run with its encryption settings and tunnel id; no stream opened yet
AeadInit ==
    /\ encEnabled \in BOOLEAN
    /\ encPSK \in PSKs
    /\ tunnelID \in TunnelIDs
    /\ aead = [w \in Streams |-> NoAead]
    /\ wire = [w \in Streams |-> <<>>]
    /\ wend = [w \in Streams |-> "open"]
    /\ seals = <<>>
    /\ sent = [w \in Streams |-> <<>>]
    /\ peer = [w \in Streams |-> NoPeer]
    /\ got = [w \in Streams |-> <<>>]

AeadCfg == <<encEnabled, encPSK, tunnelID>>

\* ClientPSK.Wrap: a fresh ClientAEAD, its counter at zero
Wrap(secret, tid) ==
    [made |-> TRUE, wrapped |-> TRUE, key |-> DeriveKey(secret, tid), encCtr |-> 0]

\* if !enc.Enabled { return s }
ShouldWrap_NeedsPSK == encEnabled /\ encPSK # <<>>
ShouldWrap == encEnabled

\* WrapClientStream(s, tunnelID, enc) on a newly opened stream w
WrapClientStream(w) ==
    /\ ~aead[w].made
    /\ aead' = [aead EXCEPT ![w] = IF ~ShouldWrap
                                     THEN [NoAead EXCEPT !.made = TRUE]
                                     ELSE Wrap(encPSK, tunnelID)]
    /\ UNCHANGED <<AeadCfg, wire, wend, seals, sent, peer, got, mgrVars, udpVars, restVars>>

\* ClientAEAD.Write(p) on stream w.  failAt: 0 when the base stream takes both
\* writes, 1 when its Write of the header fails, 2 when its Write of the
\* ciphertext fails.  A base stream that failed once stays failed.
AeadWrite(w, p, failAt) ==
    /\ aead[w].made /\ aead[w].wrapped
    /\ wend[w] # "closed"
    /\ Len(seals) < MaxWrites
    /\ (wend[w] = "broken") => failAt = 1
    /\ LET nonce == Nonce(aead[w].encCtr)
           ct == Seal(Len(seals) + 1, p)
           hdr == Header(p, ct, nonce)
       IN  /\ seals' = Append(seals, [w |-> w, key |-> aead[w].key,
                                      nonce |-> nonce, pt |-> p])
           /\ aead' = [aead EXCEPT ![w].encCtr = CtrAfterWrite(@, failAt = 0)]
           /\ wire' = [wire EXCEPT ![w] = CASE failAt = 0 -> @ \o hdr \o ct
                                              [] failAt = 1 -> @
                                              [] failAt = 2 -> @ \o hdr]
           /\ wend' = [wend EXCEPT ![w] = IF failAt = 0 THEN @ ELSE "broken"]
           /\ sent' = [sent EXCEPT ![w] = Append(@, [pt |-> p, ok |-> failAt = 0])]
    /\ UNCHANGED <<AeadCfg, peer, got, mgrVars, udpVars, restVars>>

\* the writing side is done with stream w: the reader sees end-of-stream after
\* the bytes written
EndStream(w) ==
    /\ aead[w].made /\ aead[w].wrapped
    /\ wend[w] = "open"
    /\ wend' = [wend EXCEPT ![w] = "closed"]
    /\ UNCHANGED <<AeadCfg, aead, wire, seals, sent, peer, got, mgrVars, udpVars, restVars>>

\* the other end of stream w wraps it: ClientPSK{secret}.Wrap(conn, tid)
WrapPeer(w, secret, tid) ==
    /\ aead[w].made /\ aead[w].wrapped
    /\ ~peer[w].made
    /\ peer' = [peer EXCEPT ![w] = [made |-> TRUE, secret |-> secret, tid |-> tid,
                                    key |-> DeriveKey(secret, tid), pos |-> 0]]
    /\ UNCHANGED <<AeadCfg, aead, wire, wend, seals, sent, got, mgrVars, udpVars, restVars>>

\* n := copy(p, pt) with len(p) = size: the bytes of pt that reach p
CopyTo_Whole(size, pt) == pt
CopyTo(size, pt) == SubSeq(pt, 1, Min(size, Len(pt)))

\* ClientAEAD.Read(p) with len(p) = size on the bytes rest of the base stream,
\* which has ended when ended holds: the result and the bytes consumed
ReadFrame(key, rest, ended, size) ==
    LET hlen == LenSize + NonceSize
        hdr == SubSeq(rest, 1, hlen)
        l == BigEndian(SubSeq(hdr, 1, LenSize))
        nonce == SubSeq(hdr, LenSize + 1, hlen)
        buf == SubSeq(rest, hlen + 1, hlen + l)
        pts == {seals[n].pt : n \in Opens(key, nonce, buf)}
        pt == CHOOSE x \in pts : TRUE
    IN  IF Len(rest) < hlen
           THEN [n |-> 0, err |-> IF Len(rest) = 0 THEN "EOF" ELSE "unexpected EOF",
                 data |-> <<>>, used |-> Len(rest), blocks |-> ~ended]
        ELSE IF ~IsBytes(hdr) \/ Len(rest) < hlen + l
           THEN [n |-> 0, err |-> IF Len(rest) = hlen THEN "EOF" ELSE "unexpected EOF",
                 data |-> <<>>, used |-> Len(rest), blocks |-> ~ended /\ IsBytes(hdr)]
        ELSE IF pts = {}
           THEN [n |-> 0, err |-> "message authentication failed",
                 data |-> <<>>, used |-> hlen + l, blocks |-> FALSE]
        ELSE IF size < Len(pt)
           THEN [n |-> size, err |-> "short buffer",
                 data |-> CopyTo(size, pt), used |-> hlen + l, blocks |-> FALSE]
        ELSE [n |-> Len(pt), err |-> "nil", data |-> pt, used |-> hlen + l, blocks |-> FALSE]

\* the peer of stream w calls Read with a buffer of the given size
AeadRead(w, size) ==
    /\ peer[w].made
    /\ Len(got[w]) <= MaxWrites
    /\ LET rest == SubSeq(wire[w], peer[w].pos + 1, Len(wire[w]))
           r == ReadFrame(peer[w].key, rest, wend[w] # "open", size)
       IN  /\ ~r.blocks
           /\ peer' = [peer EXCEPT ![w].pos = @ + r.used]
           /\ got' = [got EXCEPT ![w] = Append(@, [n |-> r.n, err |-> r.err,
                                                    data |-> r.data, size |-> size])]
    /\ UNCHANGED <<AeadCfg, aead, wire, wend, seals, sent, mgrVars, udpVars, restVars>>

(***************************************************************************)
(* Part III.  UDP datagrams framed on a reliable stream                    *)
(***************************************************************************)
udpMaxPacketSize == 65535
MaxUint16 == 65535

\* a payload of n bytes
Payload(n, seed) == [i \in 1..n |-> (seed + i) % 256]

UdpPayloads ==
    {Payload(n, seed) : n \in 0..MaxSmallLen, seed \in {0, 254}}
      \cup {Payload(n, 0) : n \in {255, 256, udpMaxPacketSize, udpMaxPacketSize + 1}}

\* support.ToUint16Size(n): whether n fits
ToUint16SizeOk(n) == n >= 0 /\ n <= MaxUint16

\* writeUDPPacket(w, payload).  failAt as for the encrypted stream: 0 when w
\* takes both writes, 1 when the header write fails, 2 when the payload write
\* fails.  The error returned and the bytes that reached w.
writeUDPPacket(payload, failAt) ==
    IF ~ToUint16SizeOk(Len(payload))
       THEN [err |-> "value exceeds uint16 range", out |-> <<>>]
    ELSE IF failAt = 1
       THEN [err |-> "write", out |-> <<>>]
    ELSE IF failAt = 2
       THEN [err |-> "write", out |-> PutBigEndian(Len(payload), 2)]
    ELSE [err |-> "nil", out |-> PutBigEndian(Len(payload), 2) \o payload]

\* n <= 0 || n > udpMaxPacketSize
BadSizeZeroAllowed(n) == n < 0 \/ n > udpMaxPacketSize
BadSize(n) == n <= 0 \/ n > udpMaxPacketSize

\* readUDPPacket(r) on the bytes rest of a stream that has ended when ended
\* holds: the error, the packet, the bytes consumed
readUDPPacket(rest, ended) ==
    LET n == BigEndian(SubSeq(rest, 1, 2))
    IN  IF Len(rest) < 2
           THEN [err |-> IF Len(rest) = 0 THEN "EOF" ELSE "unexpected EOF",
                 pkt |-> <<>>, used |-> Len(rest), blocks |-> ~ended]
        ELSE IF BadSize(n)
           THEN [err |-> "unexpected EOF", pkt |-> <<>>, used |-> 2, blocks |-> FALSE]
        ELSE IF Len(rest) < 2 + n
           THEN [err |-> IF Len(rest) = 2 THEN "EOF" ELSE "unexpected EOF",
                 pkt |-> <<>>, used |-> Len(rest), blocks |-> ~ended]
        ELSE [err |-> "nil", pkt |-> SubSeq(rest, 3, 2 + n), used |-> 2 + n,
              blocks |-> FALSE]

UdpInit ==
    /\ udpWire = <<>>
    /\ udpEnded = FALSE
    /\ udpSent = <<>>
    /\ udpPos = 0
    /\ udpGot = <<>>

\* one writeUDPPacket call; a writer that got an error writes no more.  A
\* payload of more than 256 bytes is the only one its stream carries.
UdpWrite(payload, failAt) ==
    /\ ~udpEnded
    /\ Len(udpSent) < MaxFrames
    /\ (Len(payload) > 256) => udpSent = <<>>
    /\ (udpSent # <<>>) => Len(udpSent[1].payload) <= 256
    /\ LET r == writeUDPPacket(payload, failAt)
       IN  /\ udpWire' = udpWire \o r.out
           /\ udpSent' = Append(udpSent, [payload |-> payload, err |-> r.err])
           /\ udpEnded' = (r.err # "nil")
    /\ UNCHANGED <<udpPos, udpGot, mgrVars, aeadVars, restVars>>

\* the stream ends after the bytes written
UdpEnd ==
    /\ ~udpEnded
    /\ udpEnded' = TRUE
    /\ UNCHANGED <<udpWire, udpSent, udpPos, udpGot, mgrVars, aeadVars, restVars>>

\* the stream breaks: of the bytes not yet read only the first k arrive
UdpCut(k) ==
    /\ ~udpEnded
    /\ udpPos + k < Len(udpWire)
    /\ udpWire' = SubSeq(udpWire, 1, udpPos + k)
    /\ udpEnded' = TRUE
    /\ UNCHANGED <<udpSent, udpPos, udpGot, mgrVars, aeadVars, restVars>>

\* one readUDPPacket call
UdpRead ==
    /\ Len(udpGot) <= MaxFrames
    /\ (udpGot # <<>>) => udpGot[Len(udpGot)].err # "EOF"
    /\ LET r == readUDPPacket(SubSeq(udpWire, udpPos + 1, Len(udpWire)), udpEnded)
       IN  /\ ~r.blocks
           /\ udpPos' = udpPos + r.used
           /\ udpGot' = Append(udpGot, [err |-> r.err, pkt |-> r.pkt, used |-> r.used])
    /\ UNCHANGED <<udpWire, udpEnded, udpSent, mgrVars, aeadVars, restVars>>

(***************************************************************************)
(* Part IV.  The ping goroutine that initializeSession starts for a        *)
(* connection (startSessionPing).  It takes no lock.  Between two pings it *)
(* evaluates m.sess == nil || m.sess.IsClosed(): two reads of m.sess, of   *)
(* which the build may keep both or fold the second into the first.        *)
(***************************************************************************)
Conns == 1..MaxConns
PingStart == [at |-> "check", seen |-> NoSess]

PingInit ==
    /\ ping = [c \in Conns |-> PingStart]
    /\ pingRead = "none"

\* how the mutex stands for a goroutine that reads without taking it
LockSeen == IF mu = Free THEN "free" ELSE "held"

\* m.sess == nil
PingCheckNil(c) ==
    /\ c \in created
    /\ ping[c].at = "check"
    /\ pingRead' = LockSeen
    /\ ping' = [ping EXCEPT ![c] = IF sess = NoSess
                                      THEN [at |-> "done", seen |-> NoSess]
                                      ELSE [at |-> "deref", seen |-> sess]]
    /\ UNCHANGED notPing

\* m.sess.IsClosed() on the value s read for it, then time.Sleep
PingIsClosed(c, s) ==
    /\ c \in created
    /\ ping[c].at = "deref"
    /\ s \in {ping[c].seen, sess}
    /\ pingRead' = IF s = sess THEN LockSeen ELSE pingRead
    /\ ping' = [ping EXCEPT ![c].at = IF s = NoSess THEN "panic"
                                       ELSE IF s \in closedSess THEN "done"
                                       ELSE "check"]
    /\ UNCHANGED notPing

(***************************************************************************)
(* Part V.  The stream bridge: PipeStreams starts one startBufferedCopy    *)
(* goroutine per direction.  An error is its identity (the sentinel value  *)
(* it is, for == and errors.Is) and its message, a sequence of words;      *)
(* strings.Contains is containment of a run of words.                      *)
(***************************************************************************)
Directions == {"a->b", "b->a"}

Contains(msg, pat) ==
    \E i \in 1..(Len(msg) - Len(pat) + 1) : SubSeq(msg, i, i + Len(pat) - 1) = pat

Running == [is |-> "running", msg |-> <<>>]
ErrNil == [is |-> "nil", msg |-> <<>>]
ErrEOF == [is |-> "io.EOF", msg |-> <<"EOF">>]
ErrUnexpectedEOF == [is |-> "io.ErrUnexpectedEOF", msg |-> <<"unexpected", "EOF">>]
ErrNetClosed ==
    [is |-> "net.ErrClosed", msg |-> <<"use", "of", "closed", "network", "connection">>]
ErrClosedPipe ==
    [is |-> "io.ErrClosedPipe", msg |-> <<"io:", "read/write", "on", "closed", "pipe">>]

\* the errors a copy direction can end with
CopyErrors ==
    {ErrNil, ErrEOF, ErrUnexpectedEOF, ErrNetClosed, ErrClosedPipe,
     [is |-> "other", msg |-> <<"read", "tcp:", "use", "of", "closed", "network", "connection">>],
     [is |-> "other", msg |-> <<"write:", "broken", "pipe">>],
     [is |-> "other", msg |-> <<"read:", "connection", "reset", "by", "peer">>],
     [is |-> "other", msg |-> <<"write:", "closed", "pipe">>],
     [is |-> "other", msg |-> <<"stream", "closed">>],
     [is |-> "other", msg |-> <<"read", "frame:", "unexpected", "EOF">>],
     [is |-> "other", msg |-> <<"message", "authentication", "failed">>],
     [is |-> "other", msg |-> <<"i/o", "timeout">>],
     [is |-> "other", msg |-> <<"value", "exceeds", "uint16", "range">>]}

\* isClosedPipe(err)
isClosedPipe(err) == Contains(err.msg, <<"closed", "pipe">>)

\* startBufferedCopy: err != nil && err != io.EOF && !isClosedPipe(err)
CopyLogs(err) == err.is # "nil" /\ err.is # "io.EOF" /\ ~isClosedPipe(err)

BrInit ==
    /\ brEnded = [d \in Directions |-> Running]
    /\ brLogged = {}

\* io.CopyBuffer of direction d returns err
CopyEnds(d, err) ==
    /\ brEnded[d] = Running
    /\ brEnded' = [brEnded EXCEPT ![d] = err]
    /\ brLogged' = IF CopyLogs(err) THEN brLogged \cup {d} ELSE brLogged
    /\ UNCHANGED notBr

(***************************************************************************)
(* Part VI.  wsconn.WSConn, the io.ReadWriteCloser over a websocket        *)
(* connection.  Messages are their type and their size; a Read or a Write  *)
(* counts the calls it makes on the connection (NextReader, the message    *)
(* reader's Read, the discard of a non-binary message, NextWriter).        *)
(***************************************************************************)
MaxWebSocketMessageSize == 1024 * 1024
MaxWebSocketFrameSize == 64 * 1024

NoReader == [set |-> FALSE, left |-> 0]
NoWsCall == [op |-> "none", size |-> 0, n |-> 0, err |-> "nil", ops |-> 0, seq |-> FALSE]

MsgSizes == {0, 2}
ReadSizes == {0, 1, MaxWebSocketFrameSize, MaxWebSocketFrameSize + 1}
WriteSizes == {1, MaxWebSocketMessageSize, MaxWebSocketMessageSize + 1}

WsInit ==
    /\ wsIn = <<>>
    /\ wsEnd = "open"
    /\ wsCur = NoReader
    /\ wsOut = <<>>
    /\ wsRes = NoWsCall

\* len(p) > MaxWebSocketFrameSize
ReadTooLarge_MessageCap(size) == size > MaxWebSocketMessageSize
ReadTooLarge(size) == size > MaxWebSocketFrameSize

\* len(p) > MaxWebSocketMessageSize
WriteTooLarge(size) == size > MaxWebSocketMessageSize

\* mt != websocket.BinaryMessage
Skipped_Never(mt) == FALSE
Skipped(mt) == mt # "binary"

\* the for loop of Read with a buffer of the given size: q the messages not
\* yet opened, cur the current reader, ops the calls made on the connection
RECURSIVE ReadLoop(_, _, _, _)
ReadLoop(q, cur, size, ops) ==
    IF ~cur.set
       THEN IF q = <<>>
               THEN [n |-> 0, err |-> IF wsEnd = "closed" THEN "EOF" ELSE "read error",
                     q |-> q, cur |-> cur, ops |-> ops + 1, blocks |-> wsEnd = "open"]
            ELSE IF Skipped(Head(q).mt)
               THEN ReadLoop(Tail(q), cur, size, ops + 2)
            ELSE ReadLoop(Tail(q), [set |-> TRUE, left |-> Head(q).len], size, ops + 1)
    ELSE IF cur.left = 0
       THEN ReadLoop(q, NoReader, size, ops + 1)
    ELSE [n |-> Min(size, cur.left), err |-> "nil", q |-> q,
          cur |-> [cur EXCEPT !.left = @ - Min(size, cur.left)],
          ops |-> ops + 1, blocks |-> FALSE]

\* WSConn.Read(p) with len(p) = size: what it does to the adapter
WsReads(size) ==
    /\ IF ReadTooLarge(size)
          THEN /\ wsRes' = [op |-> "Read", size |-> size, n |-> 0,
                            err |-> "requested buffer size exceeds maximum allowed",
                            ops |-> 0, seq |-> ~wsRes.seq]
               /\ UNCHANGED <<wsIn, wsCur>>
          ELSE LET r == ReadLoop(wsIn, wsCur, size, 0)
               IN  /\ ~r.blocks
                   /\ wsRes' = [op |-> "Read", size |-> size, n |-> r.n, err |-> r.err,
                                ops |-> r.ops, seq |-> ~wsRes.seq]
                   /\ wsIn' = r.q
                   /\ wsCur' = r.cur
    /\ UNCHANGED <<wsEnd, wsOut>>

WsRead(size) == WsReads(size) /\ UNCHANGED notWs

\* WSConn.Write(p) with len(p) = size
WsWrite(size) ==
    /\ Len(wsOut) < MaxWsMsgs
    /\ IF WriteTooLarge(size)
          THEN /\ wsRes' = [op |-> "Write", size |-> size, n |-> 0,
                            err |-> "message size exceeds maximum allowed",
                            ops |-> 0, seq |-> ~wsRes.seq]
               /\ UNCHANGED wsOut
       ELSE IF wsEnd # "open"
          THEN /\ wsRes' = [op |-> "Write", size |-> size, n |-> 0, err |-> "write error",
                            ops |-> 1, seq |-> ~wsRes.seq]
               /\ UNCHANGED wsOut
       ELSE /\ wsRes' = [op |-> "Write", size |-> size, n |-> size, err |-> "nil",
                         ops |-> 3, seq |-> ~wsRes.seq]
            /\ wsOut' = Append(wsOut, size)
    /\ UNCHANGED <<wsIn, wsEnd, wsCur, notWs>>

\* the peer sends a message
WsArrives(mt, len) ==
    /\ wsEnd = "open"
    /\ Len(wsIn) < MaxWsMsgs
    /\ wsIn' = Append(wsIn, [mt |-> mt, len |-> len])
    /\ UNCHANGED <<wsEnd, wsCur, wsOut, wsRes>>

WsArrive(mt, len) == WsArrives(mt, len) /\ UNCHANGED notWs

\* the connection is closed by the peer, or fails
WsEnds(how) ==
    /\ wsEnd = "open"
    /\ wsEnd' = how
    /\ UNCHANGED <<wsIn, wsCur, wsOut, wsRes, notWs>>

(***************************************************************************)
(* Part VII.  QUIC datagram mode: StartQUICDataPlaneUDP makes one flowMap, *)
(* starts the receiver goroutine on it and runs the sender loop on it.  A  *)
(* Go map access is not atomic: an insert and a lookup each begin and end. *)
(* A lookup that overlaps an insert is a data race; the runtime may stop   *)
(* the program ("concurrent map read and map write") or let the lookup     *)
(* give either answer.                                                     *)
(***************************************************************************)
Flows == 1..NumFlows

NoFlow == 0
SndStart == [at |-> "read", flow |-> NoFlow]
RcvStart == [at |-> "receive", flow |-> NoFlow, raced |-> FALSE]
NoLookup == [flow |-> NoFlow, ok |-> FALSE]

\* flowMap := make(map[string]*net.UDPAddr), then the two loops start
QuicInit ==
    /\ flowMap = {}
    /\ qSnd = SndStart
    /\ qRcv = RcvStart
    /\ qFwd = NoLookup

Crashed == qRcv.at = "fatal"

\* n, raddr, err := uc.ReadFromUDP(buf); flowID := raddr.String()
SndReadFromUDP(f) ==
    /\ ~Crashed
    /\ qSnd.at = "read"
    /\ qSnd' = [at |-> "insert", flow |-> f]
    /\ UNCHANGED <<flowMap, qRcv, qFwd, notQuic>>

\* flowMap[flowID] = raddr begins: nothing is taken or waited for
SndInsertBegins ==
    /\ ~Crashed
    /\ qSnd.at = "insert"
    /\ qSnd' = [qSnd EXCEPT !.at = "inserting"]
    /\ qRcv' = IF qRcv.at = "looking" THEN [qRcv EXCEPT !.raced = TRUE] ELSE qRcv
    /\ UNCHANGED <<flowMap, qFwd, notQuic>>

\* flowMap[flowID] = raddr ends
SndInsertEnds ==
    /\ ~Crashed
    /\ qSnd.at = "inserting"
    /\ flowMap' = flowMap \cup {qSnd.flow}
    /\ qSnd' = [qSnd EXCEPT !.at = "send"]
    /\ UNCHANGED <<qRcv, qFwd, notQuic>>

\* json.Marshal(frame); qc.SendDatagram(b); back to the top of the loop
SndSendDatagram ==
    /\ ~Crashed
    /\ qSnd.at = "send"
    /\ qSnd' = SndStart
    /\ UNCHANGED <<flowMap, qRcv, qFwd, notQuic>>

\* b, err := qc.ReceiveDatagram(ctx); a frame that does not decode, is not
\* "udp" or has no data is dropped
RcvReceiveDatagram(f, good) ==
    /\ ~Crashed
    /\ qRcv.at = "receive"
    /\ qRcv' = IF good THEN [at |-> "lookup", flow |-> f, raced |-> FALSE] ELSE qRcv
    /\ UNCHANGED <<flowMap, qSnd, qFwd, notQuic>>

\* ra, ok := flowMap[fr.FlowID] begins: nothing is taken or waited for
RcvLookupBegins ==
    /\ ~Crashed
    /\ qRcv.at = "lookup"
    /\ qRcv' = [qRcv EXCEPT !.at = "looking", !.raced = (qSnd.at = "inserting")]
    /\ UNCHANGED <<flowMap, qSnd, qFwd, notQuic>>

\* what a lookup of f may give
LookupOutcomes(f, raced) ==
    IF raced THEN {"found", "absent", "fatal"}
    ELSE IF f \in flowMap THEN {"found"} ELSE {"absent"}

\* ra, ok := flowMap[fr.FlowID] ends; uc.WriteToUDP(fr.Data, ra) if ok
RcvLookupEnds(out) ==
    /\ ~Crashed
    /\ qRcv.at = "looking"
    /\ out \in LookupOutcomes(qRcv.flow, qRcv.raced)
    /\ IF out = "fatal"
          THEN /\ qRcv' = [qRcv EXCEPT !.at = "fatal"]
               /\ UNCHANGED qFwd
          ELSE /\ qRcv' = RcvStart
               /\ qFwd' = [flow |-> qRcv.flow, ok |-> out = "found"]
    /\ UNCHANGED <<flowMap, qSnd, notQuic>>

(***************************************************************************)
(* Texts.  A Go string or []byte is the sequence of its bytes (0..255).    *)
(* unicode/utf8 and strings.TrimSpace as the standard library computes     *)
(* them.                                                                   *)
(***************************************************************************)
\* utf8.RuneError, U+FFFD, and its encoding EF BF BD
RuneError == 65533
RuneErrorBytes == <<239, 191, 189>>

Rune(r, size) == [rune |-> r, size |-> size]

\* t has at i a continuation byte within lo..hi
Cont(t, i, lo, hi) == i <= Len(t) /\ t[i] >= lo /\ t[i] <= hi

\* the bounds of the second byte after the first byte b (acceptRanges)
SecondLo(b) == IF b = 224 THEN 160 ELSE IF b = 240 THEN 144 ELSE 128
SecondHi(b) == IF b = 237 THEN 159 ELSE IF b = 244 THEN 143 ELSE 191

\* utf8.DecodeRune(t[i:]): the rune at position i and the bytes it takes
DecodeRune(t, i) ==
    IF t[i] < 128 THEN Rune(t[i], 1)
    ELSE IF t[i] >= 194 /\ t[i] <= 223 /\ Cont(t, i + 1, 128, 191)
       THEN Rune(((t[i] % 32) * 64) + (t[i + 1] % 64), 2)
    ELSE IF /\ t[i] >= 224 /\ t[i] <= 239
            /\ Cont(t, i + 1, SecondLo(t[i]), SecondHi(t[i])) /\ Cont(t, i + 2, 128, 191)
       THEN Rune(((t[i] % 16) * 4096) + ((t[i + 1] % 64) * 64) + (t[i + 2] % 64), 3)
    ELSE IF /\ t[i] >= 240 /\ t[i] <= 244
            /\ Cont(t, i + 1, SecondLo(t[i]), SecondHi(t[i]))
            /\ Cont(t, i + 2, 128, 191) /\ Cont(t, i + 3, 128, 191)
       THEN Rune(((t[i] % 8) * 262144) + ((t[i + 1] % 64) * 4096)
                 + ((t[i + 2] % 64) * 64) + (t[i + 3] % 64), 4)
    ELSE Rune(RuneError, 1)

\* utf8.RuneStart
RuneStart(b) == b < 128 \/ b >= 192

\* where utf8.DecodeLastRune starts to decode: the last start byte among the
\* three bytes before the last one, else the first byte it may look at
LastStart(t, lim) ==
    IF \E s \in lim..(Len(t) - 1) : RuneStart(t[s])
       THEN CHOOSE s \in lim..(Len(t) - 1) :
                RuneStart(t[s]) /\ \A o \in (s + 1)..(Len(t) - 1) : ~RuneStart(t[o])
       ELSE lim

LastRuneFrom(t, start, r) == IF start + r.size - 1 # Len(t) THEN Rune(RuneError, 1) ELSE r

LastRuneAt(t, start) == LastRuneFrom(t, start, DecodeRune(t, start))

\* utf8.DecodeLastRune(t), t not empty: the rune that ends t and the bytes
\* it takes
DecodeLastRune(t) ==
    IF t[Len(t)] < 128 THEN Rune(t[Len(t)], 1)
    ELSE LastRuneAt(t, LastStart(t, IF Len(t) > 4 THEN Len(t) - 3 ELSE 1))

\* utf8.EncodeRune
EncodeRune(r) ==
    IF r < 128 THEN <<r>>
    ELSE IF r < 2048 THEN <<192 + (r \div 64), 128 + (r % 64)>>
    ELSE IF (r >= 55296 /\ r <= 57343) \/ r > 1114111 THEN RuneErrorBytes
    ELSE IF r < 65536 THEN <<224 + (r \div 4096), 128 + ((r \div 64) % 64), 128 + (r % 64)>>
    ELSE <<240 + (r \div 262144), 128 + ((r \div 4096) % 64),
          128 + ((r \div 64) % 64), 128 + (r % 64)>>

\* unicode.IsSpace
IsSpace(r) ==
    \/ r \in {9, 10, 11, 12, 13, 32, 133, 160}
    \/ r \in {5760, 8232, 8233, 8239, 8287, 12288}
    \/ (r >= 8192 /\ r <= 8202)

\* the first position in lo..hi that holds a byte of S, or 0; by halves, so
\* that a long run is searched without deep recursion
RECURSIVE FirstIn(_, _, _, _)
FirstOr(a, b) == IF a # 0 THEN a ELSE b
FirstIn(t, lo, hi, S) ==
    IF lo > hi THEN 0
    ELSE IF lo = hi THEN (IF t[lo] \in S THEN lo ELSE 0)
    ELSE FirstOr(FirstIn(t, lo, (lo + hi) \div 2, S), FirstIn(t, ((lo + hi) \div 2) + 1, hi, S))

\* the bytes TrimSpace steps over in its loop over ASCII: all but asciiSpace
NotAsciiSpace == (0..255) \ {9, 10, 11, 12, 13, 32}

\* the left end of strings.TrimSpace: the leading ASCII white space in one
\* loop, then strings.TrimLeftFunc(t, unicode.IsSpace) rune by rune
RECURSIVE TrimLeft(_)
TrimLeftRune(t, r) == IF IsSpace(r.rune) THEN TrimLeft(SubSeq(t, 1 + r.size, Len(t))) ELSE t
TrimLeftFrom(t, f) ==
    IF f = 0 THEN <<>> ELSE TrimLeftRune(SubSeq(t, f, Len(t)), DecodeRune(t, f))
TrimLeft(t) == TrimLeftFrom(t, FirstIn(t, 1, Len(t), NotAsciiSpace))

\* strings.TrimRightFunc(t, unicode.IsSpace)
RECURSIVE TrimRight(_)
TrimRightRune(t, r) == IF IsSpace(r.rune) THEN TrimRight(SubSeq(t, 1, Len(t) - r.size)) ELSE t
TrimRight(t) == IF t = <<>> THEN t ELSE TrimRightRune(t, DecodeLastRune(t))

\* strings.TrimSpace
TrimSpace(t) == TrimRight(TrimLeft(t))

(***************************************************************************)
(* Part VIII.  config.applySecretSource: one secret of the configuration   *)
(* and the places it can come from.  Each place has a letter of its own    *)
(* (a, f, s, e), so that a value tells its origin.                         *)
(***************************************************************************)
SecretLabels == {"token", "pass", "psk", "dp-auth-token", "dp-auth-secret"}

\* what a place may hold: nothing, blanks, a secret, a secret within blanks
Texts(c) == {<<>>, <<32>>, <<c>>, <<32, c, 32>>}

FlagValues == {<<>>, <<97>>}
\* --x-file: not given, a path that cannot be read, or a file and its content
FileInputs ==
    {[path |-> FALSE, readable |-> FALSE, data |-> <<>>],
     [path |-> TRUE, readable |-> FALSE, data |-> <<>>]}
    \cup {[path |-> TRUE, readable |-> TRUE, data |-> d] : d \in Texts(102)}
\* --x-stdin: not given, or given and what standard input holds
StdinInputs ==
    {[on |-> FALSE, data |-> <<>>]} \cup {[on |-> TRUE, data |-> d] : d \in Texts(115)}
EnvValues == Texts(101)

NoSecretOut == [done |-> FALSE, value |-> <<>>, err |-> "nil"]

SecIdle ==
    /\ secIn = [label |-> "token", value |-> <<>>,
                file |-> [path |-> FALSE, readable |-> FALSE, data |-> <<>>],
                stdin |-> [on |-> FALSE, data |-> <<>>], env |-> <<>>]
    /\ secOut = NoSecretOut

SecInit ==
    /\ secIn \in [label : SecretLabels, value : FlagValues, file : FileInputs,
                  stdin : StdinInputs, env : EnvValues]
    /\ secOut = NoSecretOut

\* support.ReadSecretFile
ReadSecretFile(f) ==
    IF ~f.readable THEN [value |-> <<>>, err |-> "read secret file"]
    ELSE IF TrimSpace(f.data) = <<>> THEN [value |-> <<>>, err |-> "secret file is empty"]
    ELSE [value |-> TrimSpace(f.data), err |-> "nil"]

\* support.ReadSecretStdin
ReadSecretStdin(in) ==
    IF TrimSpace(in.data) = <<>> THEN [value |-> <<>>, err |-> "from stdin is empty"]
    ELSE [value |-> TrimSpace(in.data), err |-> "nil"]

\* support.GetEnvTrimmed
GetEnvTrimmed(v) == TrimSpace(v)

\* the value applySecretSource leaves in *source.value, and its error
SecretFrom(source) ==
    IF source.value # <<>> THEN [value |-> source.value, err |-> "nil"]
    ELSE IF source.file.path
       THEN LET r == ReadSecretFile(source.file)
            IN  IF r.err # "nil" THEN [value |-> source.value, err |-> r.err] ELSE r
    ELSE IF source.stdin.on
       THEN LET r == ReadSecretStdin(source.stdin)
            IN  IF r.err # "nil" THEN [value |-> source.value, err |-> r.err] ELSE r
    ELSE [value |-> GetEnvTrimmed(source.env), err |-> "nil"]

applySecretSource ==
    /\ ~secOut.done
    /\ secOut' = [done |-> TRUE, value |-> SecretFrom(secIn).value,
                  err |-> SecretFrom(secIn).err]
    /\ UNCHANGED <<secIn, notSec>>

(***************************************************************************)
(* Part IX.  The stream preface: encodePreface (json.Marshal of a          *)
(* map[string]string and a newline), readStreamDestination (the first      *)
(* non-blank line, json.Unmarshal into a map[string]string, its "dst") and *)
(* serveIncomingStream.  encoding/json is modelled on bytes, as it works.  *)
(***************************************************************************)
\* the keys the drivers use: "auth", "dst", "proto", "tunnel_id"
KeyAuth == <<97, 117, 116, 104>>
KeyDst == <<100, 115, 116>>
KeyProto == <<112, 114, 111, 116, 111>>
KeyTunnelID == <<116, 117, 110, 110, 101, 108, 95, 105, 100>>

\* a nil map, or the map of its keys to their values
NilMap == [nil |-> TRUE, kv |-> <<>>]
MapOf(kv) == [nil |-> FALSE, kv |-> kv]

\* a < b as Go compares strings
RECURSIVE Less(_, _)
Less(a, b) ==
    IF b = <<>> THEN FALSE
    ELSE IF a = <<>> THEN TRUE
    ELSE IF Head(a) # Head(b) THEN Head(a) < Head(b)
    ELSE Less(Tail(a), Tail(b))

\* json.Marshal writes the keys of a map in sorted order
RECURSIVE SortedKeys(_)
MinKey(S) == CHOOSE k \in S : \A o \in S : ~Less(o, k)
SortedFrom(S, k) == <<k>> \o SortedKeys(S \ {k})
SortedKeys(S) == IF S = {} THEN <<>> ELSE SortedFrom(S, MinKey(S))

\* "0123456789abcdef"[n]
Hex(n) == IF n < 10 THEN 48 + n ELSE 87 + n

\* htmlSafeSet: the ASCII bytes written as they are
htmlSafe_NoQuote(b) == b >= 32 /\ b \notin {92, 60, 62, 38}
htmlSafe(b) == b >= 32 /\ b \notin {34, 92, 60, 62, 38}

\* appendString with escapeHTML: what is written for an ASCII byte
EscapedByte(b) ==
    IF htmlSafe(b) THEN <<b>>
    ELSE IF b = 92 \/ b = 34 THEN <<92, b>>
    ELSE IF b = 8 THEN <<92, 98>>
    ELSE IF b = 12 THEN <<92, 102>>
    ELSE IF b = 10 THEN <<92, 110>>
    ELSE IF b = 13 THEN <<92, 114>>
    ELSE IF b = 9 THEN <<92, 116>>
    ELSE <<92, 117, 48, 48, Hex(b \div 16), Hex(b % 16)>>

\* what is written for the rune r found at i
EscapedRune(s, i, r) ==
    IF s[i] < 128 THEN EscapedByte(s[i])
    ELSE IF r.rune = RuneError /\ r.size = 1 THEN <<92, 117, 102, 102, 102, 100>>
    ELSE IF r.rune = 8232 \/ r.rune = 8233 THEN <<92, 117, 50, 48, 50, Hex(r.rune % 16)>>
    ELSE SubSeq(s, i, i + r.size - 1)

\* appendString from position i on, without the quotes around it
RECURSIVE appendString(_, _)
AppendRune(s, i, r) == EscapedRune(s, i, r) \o appendString(s, i + r.size)
appendString(s, i) == IF i > Len(s) THEN <<>> ELSE AppendRune(s, i, DecodeRune(s, i))

Quoted(s) == <<34>> \o appendString(s, 1) \o <<34>>

\* the members of the object, keys in the given order
RECURSIVE Members(_, _)
Members(kv, keys) ==
    IF keys = <<>> THEN <<>>
    ELSE Quoted(Head(keys)) \o <<58>> \o Quoted(kv[Head(keys)])
         \o (IF Len(keys) > 1 THEN <<44>> ELSE <<>>) \o Members(kv, Tail(keys))

\* json.Marshal(fields) for a map[string]string: it has no error
Marshal(fields) ==
    IF fields.nil THEN <<110, 117, 108, 108>>
    ELSE <<123>> \o Members(fields.kv, SortedKeys(DOMAIN fields.kv)) \o <<125>>

encodePreface(fields) == Append(Marshal(fields), 10)

\* ---- json.Unmarshal(line, &pre), pre a map[string]string
NoValue == [ok |-> FALSE, next |-> 0, kind |-> "none", str |-> <<>>, dst |-> <<>>, bad |-> FALSE]
Value(next, kind, str, dst, bad) ==
    [ok |-> TRUE, next |-> next, kind |-> kind, str |-> str, dst |-> dst, bad |-> bad]

\* isSpace of the scanner: the first position from i on that is not white space
RECURSIVE SkipWs(_, _)
SkipWs(t, i) == IF i <= Len(t) /\ t[i] \in {32, 9, 13, 10} THEN SkipWs(t, i + 1) ELSE i

HexVal(b) ==
    IF b >= 48 /\ b <= 57 THEN b - 48
    ELSE IF b >= 97 /\ b <= 102 THEN b - 87
    ELSE IF b >= 65 /\ b <= 70 THEN b - 55
    ELSE 0 - 1

\* the four hexadecimal digits at i, or -1
Hex4(t, i) ==
    IF i + 3 > Len(t) \/ \E k \in 0..3 : HexVal(t[i + k]) < 0 THEN 0 - 1
    ELSE (HexVal(t[i]) * 4096) + (HexVal(t[i + 1]) * 256) + (HexVal(t[i + 2]) * 16)
         + HexVal(t[i + 3])

\* getu4: the code of the \uXXXX at i, or -1
getu4(t, i) == IF i + 1 <= Len(t) /\ t[i] = 92 /\ t[i + 1] = 117 THEN Hex4(t, i + 2) ELSE 0 - 1

\* utf16.DecodeRune
DecodeSurrogates(r1, r2) ==
    IF r1 >= 55296 /\ r1 < 56320 /\ r2 >= 56320 /\ r2 < 57344
       THEN ((r1 - 55296) * 1024) + (r2 - 56320) + 65536
       ELSE RuneError

\* one step in a string literal: it ends, it is wrong, or bytes of the
\* literal stand for bytes of the string
StringEnds == [kind |-> "end", size |-> 1, bytes |-> <<>>]
StringBad == [kind |-> "bad", size |-> 0, bytes |-> <<>>]
StringMore(size, bytes) == [kind |-> "more", size |-> size, bytes |-> bytes]

\* \uXXXX with code r1, what getu4 finds after it being r2
SurrogateStep(dec) ==
    IF dec # RuneError THEN StringMore(12, EncodeRune(dec)) ELSE StringMore(6, RuneErrorBytes)

UnicodeStep(r1, r2) ==
    IF r1 < 0 THEN StringBad
    ELSE IF r1 >= 55296 /\ r1 < 57344 THEN SurrogateStep(DecodeSurrogates(r1, r2))
    ELSE StringMore(6, EncodeRune(r1))

\* a backslash at i
EscapeStep(t, i) ==
    IF i + 1 > Len(t) THEN StringBad
    ELSE IF t[i + 1] \in {34, 92, 47} THEN StringMore(2, <<t[i + 1]>>)
    ELSE IF t[i + 1] = 98 THEN StringMore(2, <<8>>)
    ELSE IF t[i + 1] = 102 THEN StringMore(2, <<12>>)
    ELSE IF t[i + 1] = 110 THEN StringMore(2, <<10>>)
    ELSE IF t[i + 1] = 114 THEN StringMore(2, <<13>>)
    ELSE IF t[i + 1] = 116 THEN StringMore(2, <<9>>)
    ELSE IF t[i + 1] = 117 THEN UnicodeStep(Hex4(t, i + 2), getu4(t, i + 6))
    ELSE StringBad

RuneStep(r) == StringMore(r.size, EncodeRune(r.rune))

\* the scanner's checks and unquote's conversion at i
StringStep(t, i) ==
    IF t[i] = 34 THEN StringEnds
    ELSE IF t[i] < 32 THEN StringBad
    ELSE IF t[i] = 92 THEN EscapeStep(t, i)
    ELSE IF t[i] < 128 THEN StringMore(1, <<t[i]>>)
    ELSE RuneStep(DecodeRune(t, i))

\* a string literal from after its opening quote, acc the bytes decoded so far
RECURSIVE ParseString(_, _, _)
StringNext(t, i, acc, s) ==
    IF s.kind = "end" THEN Value(i + 1, "string", acc, <<>>, FALSE)
    ELSE IF s.kind = "bad" THEN NoValue
    ELSE ParseString(t, i + s.size, acc \o s.bytes)
ParseString(t, i, acc) == IF i > Len(t) THEN NoValue ELSE StringNext(t, i, acc, StringStep(t, i))

\* the first position from i on that is not a digit
RECURSIVE Digits(_, _)
Digits(t, i) == IF i <= Len(t) /\ t[i] >= 48 /\ t[i] <= 57 THEN Digits(t, i + 1) ELSE i

\* a number: where it ends, or 0 if there is none.  d is where the digits
\* required at s end
SomeDigits(s, d) == IF d > s THEN d ELSE 0

NumExp(t, c) ==
    IF c = 0 \/ c > Len(t) \/ t[c] \notin {101, 69} THEN c
    ELSE IF c + 1 <= Len(t) /\ t[c + 1] \in {43, 45} THEN SomeDigits(c + 2, Digits(t, c + 2))
    ELSE SomeDigits(c + 1, Digits(t, c + 1))

NumFrac(t, b) ==
    IF b = 0 \/ b > Len(t) \/ t[b] # 46 THEN NumExp(t, b)
    ELSE NumExp(t, SomeDigits(b + 1, Digits(t, b + 1)))

NumInt(t, a) ==
    IF a > Len(t) THEN 0
    ELSE IF t[a] = 48 THEN NumFrac(t, a + 1)
    ELSE IF t[a] >= 49 /\ t[a] <= 57 THEN NumFrac(t, Digits(t, a + 1))
    ELSE 0

ParseNumber(t, i) == IF t[i] = 45 THEN NumInt(t, i + 1) ELSE NumInt(t, i)

NumberValue(n) == IF n > 0 THEN Value(n, "number", <<>>, <<>>, FALSE) ELSE NoValue

StartsWith(t, i, lit) == i + Len(lit) - 1 <= Len(t) /\ SubSeq(t, i, i + Len(lit) - 1) = lit

\* a value from i; of an object, the "dst" it leaves in the map and whether a
\* member's value was neither a string nor null (an UnmarshalTypeError)
RECURSIVE ParseValue(_, _)
RECURSIVE ParseMembers(_, _, _, _)
RECURSIVE ParseElements(_, _)

\* after "{" and after "["
ObjectFrom(t, j) ==
    IF j <= Len(t) /\ t[j] = 125 THEN Value(j + 1, "object", <<>>, <<>>, FALSE)
    ELSE ParseMembers(t, j, <<>>, FALSE)

ArrayFrom(t, j) ==
    IF j <= Len(t) /\ t[j] = 93 THEN Value(j + 1, "array", <<>>, <<>>, FALSE)
    ELSE ParseElements(t, j)

ValueAt(t, i) ==
    IF i > Len(t) THEN NoValue
    ELSE IF t[i] = 34 THEN ParseString(t, i + 1, <<>>)
    ELSE IF t[i] = 123 THEN ObjectFrom(t, SkipWs(t, i + 1))
    ELSE IF t[i] = 91 THEN ArrayFrom(t, SkipWs(t, i + 1))
    ELSE IF StartsWith(t, i, <<110, 117, 108, 108>>) THEN Value(i + 4, "null", <<>>, <<>>, FALSE)
    ELSE IF StartsWith(t, i, <<116, 114, 117, 101>>) THEN Value(i + 4, "bool", <<>>, <<>>, FALSE)
    ELSE IF StartsWith(t, i, <<102, 97, 108, 115, 101>>)
       THEN Value(i + 5, "bool", <<>>, <<>>, FALSE)
    ELSE NumberValue(ParseNumber(t, i))

ParseValue(t, i) == ValueAt(t, SkipWs(t, i))

\* after a member: a comma and the next member, or the closing brace
NextMember(t, e, dst, bad) ==
    IF e > Len(t) THEN NoValue
    ELSE IF t[e] = 44 THEN ParseMembers(t, SkipWs(t, e + 1), dst, bad)
    ELSE IF t[e] = 125 THEN Value(e + 1, "object", <<>>, dst, bad)
    ELSE NoValue

\* the member with key k and value v is stored: a string as it is, null as
\* the empty string; any other value is a type error
AfterMember(t, k, v, dst, bad) ==
    IF ~v.ok THEN NoValue
    ELSE NextMember(t, SkipWs(t, v.next),
                    IF k.str # KeyDst THEN dst ELSE IF v.kind = "string" THEN v.str ELSE <<>>,
                    bad \/ v.kind \notin {"string", "null"})

AfterColon(t, k, c, dst, bad) ==
    IF c > Len(t) \/ t[c] # 58 THEN NoValue ELSE AfterMember(t, k, ParseValue(t, c + 1), dst, bad)

AfterKey(t, k, dst, bad) ==
    IF ~k.ok THEN NoValue ELSE AfterColon(t, k, SkipWs(t, k.next), dst, bad)

\* the members of an object from the key at i to the closing brace
ParseMembers(t, i, dst, bad) ==
    IF i > Len(t) \/ t[i] # 34 THEN NoValue
    ELSE AfterKey(t, ParseString(t, i + 1, <<>>), dst, bad)

\* after an element: a comma and the next element, or the closing bracket
NextElement(t, e) ==
    IF e > Len(t) THEN NoValue
    ELSE IF t[e] = 44 THEN ParseElements(t, e + 1)
    ELSE IF t[e] = 93 THEN Value(e + 1, "array", <<>>, <<>>, FALSE)
    ELSE NoValue

AfterElement(t, v) == IF ~v.ok THEN NoValue ELSE NextElement(t, SkipWs(t, v.next))

\* the elements of an array from the one at i to the closing bracket
ParseElements(t, i) == AfterElement(t, ParseValue(t, i))

\* what Unmarshal gives once the line was scanned as v
Decoded(t, v) ==
    IF ~v.ok \/ SkipWs(t, v.next) <= Len(t) THEN [err |-> "SyntaxError", dst |-> <<>>]
    ELSE IF v.kind = "null" THEN [err |-> "nil", dst |-> <<>>]
    ELSE IF v.kind = "object" /\ ~v.bad THEN [err |-> "nil", dst |-> v.dst]
    ELSE [err |-> "UnmarshalTypeError", dst |-> <<>>]

\* json.Unmarshal(line, &pre) and pre["dst"]
Unmarshal(line) == Decoded(line, ParseValue(line, 1))

\* where the first newline at or after i is, or 0
IndexNewline(t, i) == FirstIn(t, i, Len(t), {10})

\* readStreamDestination on a stream that holds t from position i on, and
\* then ends
RECURSIVE readStreamDestination(_, _)
\* next is the place of the first byte the reader has not given out
Destination(u, next) ==
    IF u.err # "nil" THEN [dst |-> <<>>, err |-> u.err, next |-> next]
    ELSE [dst |-> u.dst, err |-> "nil", next |-> next]

\* if line == "" { continue }
DestinationOf_NoSkip(t, nl, line) == Destination(Unmarshal(line), nl + 1)
DestinationOf(t, nl, line) ==
    IF line = <<>> THEN readStreamDestination(t, nl + 1)
    ELSE Destination(Unmarshal(line), nl + 1)

ReadLine(t, i, nl) ==
    IF nl = 0 THEN [dst |-> <<>>, err |-> "EOF", next |-> Len(t) + 1]
    ELSE DestinationOf(t, nl, TrimSpace(SubSeq(t, i, nl)))

readStreamDestination(t, i) == ReadLine(t, i, IndexNewline(t, i))

\* ---- the round trip of a preface
\* the pieces a value is made of: a, ", \, newline, <, space, the control
\* byte 01, e-acute (C3 A9), its first byte alone, its second byte alone, the
\* byte FF, U+2028 (E2 80 A8), an encoded surrogate (ED A0 80), U+1F600
ValuePieces ==
    {<<97>>, <<34>>, <<92>>, <<10>>, <<60>>, <<32>>, <<1>>, <<195, 169>>, <<195>>, <<169>>,
     <<255>>, <<226, 128, 168>>, <<237, 160, 128>>, <<240, 159, 152, 128>>}

RECURSIVE ValuesUpTo(_)
ValuesUpTo(n) ==
    IF n = 0 THEN {<<>>}
    ELSE ValuesUpTo(n - 1) \cup {v \o p : v \in ValuesUpTo(n - 1), p \in ValuePieces}

PrefaceValues == ValuesUpTo(MaxValLen)

\* "tcp"
ProtoTCP == <<116, 99, 112>>

\* the maps given to encodePreface: nil, empty, with and without "dst",
\* with a key before and a key after it
PrefaceMaps ==
    {NilMap, MapOf(<<>>)}
    \cup {MapOf(KeyDst :> v) : v \in PrefaceValues}
    \cup {MapOf(KeyProto :> v) : v \in PrefaceValues}
    \cup {MapOf(KeyDst :> v @@ KeyProto :> ProtoTCP @@ KeyAuth :> v) : v \in PrefaceValues}

NoPreface == [done |-> FALSE, line |-> <<>>, dst |-> <<>>, err |-> "nil"]

PfIdle ==
    /\ pfMap = NilMap
    /\ pfOut = NoPreface

PfInit ==
    /\ pfMap \in PrefaceMaps
    /\ pfOut = NoPreface

ReadBack(line, r) == [done |-> TRUE, line |-> line, dst |-> r.dst, err |-> r.err]

\* the line is written to a stream and readStreamDestination reads that stream
WrittenAndRead(line) == ReadBack(line, readStreamDestination(line, 1))

\* encodePreface(pfMap) goes to the peer
PrefaceRoundTrip ==
    /\ ~pfOut.done
    /\ pfOut' = WrittenAndRead(encodePreface(pfMap))
    /\ UNCHANGED <<pfMap, inTokens, srv, notPf>>

\* ---- serveIncomingStream
\* what an inbound stream is made of, and the bytes of each
TokenBytes ==
    [lbrace |-> <<123>>,
     rbrace |-> <<125>>,
     dstkey |-> <<123, 34, 100, 115, 116, 34, 58>>,
     str |-> <<34, 120, 34>>,
     empty |-> <<34, 34>>,
     null |-> <<110, 117, 108, 108>>,
     one |-> <<49>>,
     nl |-> <<10>>,
     invalid |-> <<105, 110, 118, 97, 108, 105, 100>>,
     sp |-> <<32>>]

Tokens == DOMAIN TokenBytes

\* the size a preface line may have: 64 KiB
PrefaceCap == 64 * 1024

\* "pad" is a run of PrefaceCap spaces, for lines longer than that
AllTokenBytes == [pad |-> [j \in 1..PrefaceCap |-> 32]] @@ TokenBytes

RECURSIVE TokensUpTo(_)
TokensUpTo(n) ==
    IF n = 0 THEN {<<>>}
    ELSE TokensUpTo(n - 1) \cup {Append(s, k) : s \in TokensUpTo(n - 1), k \in Tokens}

RECURSIVE StreamBytes(_)
StreamBytes(toks) ==
    IF toks = <<>> THEN <<>> ELSE AllTokenBytes[Head(toks)] \o StreamBytes(Tail(toks))

NoServe == [done |-> FALSE, err |-> "nil", dialed |-> FALSE, dst |-> <<>>, closed |-> FALSE]

SrvIdle ==
    /\ inTokens = <<>>
    /\ srv = NoServe

SrvInit ==
    /\ inTokens \in TokensUpTo(MaxTokens)
    /\ srv = NoServe

\* err != nil || dst == ""
StopsBeforeDial_ErrOnly(err, dst) == err # "nil"
StopsBeforeDial(err, dst) == err # "nil" \/ dst = <<>>

\* what serveIncomingStream does once readStreamDestination gave r: it
\* returns before net.Dial, or dials r.dst and serves until the copying ends.
\* The deferred stream.Close() runs on every return.
Served(r, dialOK) ==
    IF StopsBeforeDial(r.err, r.dst)
       THEN [done |-> TRUE, err |-> r.err, dialed |-> FALSE, dst |-> <<>>, closed |-> TRUE]
       ELSE [done |-> TRUE, err |-> IF dialOK THEN "nil" ELSE "dial error",
             dialed |-> TRUE, dst |-> r.dst, closed |-> TRUE]

\* serveIncomingStream(stream) on a stream that holds the tokens and then
\* ends; dialOK is whether net.Dial("tcp", dst) succeeds
serveIncomingStream(dialOK) ==
    /\ ~srv.done
    /\ srv' = Served(readStreamDestination(StreamBytes(inTokens), 1), dialOK)
    /\ UNCHANGED <<inTokens, pfMap, pfOut, notPf>>

(***************************************************************************)
(* Part X.  The drivers that open outbound streams: StartDataPlane (the    *)
(* echo test), StartDataPlaneServeListenReconnect, StartDataPlaneUDP and   *)
(* StartDTLSDataPlaneUDP.  A process runs one driver with one encryption   *)
(* setting; serve_listen opens a stream per accepted connection, the       *)
(* others open one.                                                        *)
(***************************************************************************)
Drivers == {"echo_test", "serve_listen", "udp_forward", "dtls"}

\* the dst, tunnelID and authToken of the run: "a", "t", "k"
DrvDst == <<97>>
DrvTunnelID == <<116>>
DrvAuthToken == <<107>>
ProtoUDP == <<117, 100, 112>>

\* the map a driver gives to encodePreface
PrefaceOf(d) ==
    IF d = "udp_forward"
       THEN MapOf((KeyDst :> DrvDst) @@ (KeyProto :> ProtoUDP) @@ (KeyTunnelID :> DrvTunnelID))
    ELSE IF d = "dtls"
       THEN MapOf((KeyAuth :> DrvAuthToken) @@ (KeyTunnelID :> DrvTunnelID) @@ (KeyDst :> DrvDst))
    ELSE MapOf((KeyDst :> DrvDst) @@ (KeyProto :> ProtoTCP))

\* one Write call on a stream: what it carries, the bytes of a preface,
\* whether it went through the AEAD wrapper, whether it succeeded
WriteCall(what, bytes, wrapped, ok) ==
    [what |-> what, bytes |-> bytes, wrapped |-> wrapped, ok |-> ok]

NoStream == [at |-> "unopened", log |-> <<>>]

DrvIdle ==
    /\ drvCfg = [driver |-> "echo_test", enabled |-> FALSE]
    /\ drv = [s \in Streams |-> NoStream]

DrvInit ==
    /\ drvCfg \in [driver : Drivers, enabled : BOOLEAN]
    /\ drv = [s \in Streams |-> NoStream]

\* sess.OpenStream() (dtls.Dial in the DTLS driver): serve_listen opens a
\* stream for every connection it accepts, the other drivers open one stream
OpenStream(s) ==
    /\ drv[s].at = "unopened"
    /\ drvCfg.driver = "serve_listen" \/ s = 1
    /\ drv' = [drv EXCEPT ![s].at = "opened"]
    /\ UNCHANGED <<drvCfg, notDrv>>

\* b, err := encodePreface(...); stream.Write(b).  When the Write fails the
\* driver returns and the deferred Close runs.
WritePreface(s, ok) ==
    /\ drv[s].at = "opened"
    /\ drv' = [drv EXCEPT
                 ![s].log = Append(@, WriteCall("preface", encodePreface(PrefaceOf(drvCfg.driver)),
                                               FALSE, ok)),
                 ![s].at = IF ok THEN "prefaced" ELSE "closed"]
    /\ UNCHANGED <<drvCfg, notDrv>>

\* whether the payload goes through the AEAD wrapper: WrapClientStream wraps
\* when enc.Enabled, the DTLS driver writes to conn itself
ThroughWrapper == drvCfg.driver # "dtls" /\ drvCfg.enabled

\* wrapped := WrapClientStream(stream, tunnelID, enc) and the start of the
\* copying (PipeStreams, startUDPLocalToStream, the echo message)
StartCopying(s) ==
    /\ drv[s].at = "prefaced"
    /\ drv' = [drv EXCEPT ![s].at = "copying"]
    /\ UNCHANGED <<drvCfg, notDrv>>

\* where the driver is when it writes payload
WritesPayloadAt_BeforePreface(at) == at \in {"opened", "copying"}
WritesPayloadAt(at) == at = "copying"

\* wrapped.Write(p): an AEAD frame when wrapped, the payload bytes otherwise.
\* The echo test writes one message and returns; the others go on until a
\* Write fails or the copying ends.
WritePayload(s, ok) ==
    /\ WritesPayloadAt(drv[s].at)
    /\ Len(drv[s].log) < MaxWrites
    /\ drv' = [drv EXCEPT
                 ![s].log = Append(@, WriteCall(IF ThroughWrapper THEN "frame" ELSE "payload",
                                               <<>>, ThroughWrapper, ok)),
                 ![s].at = IF ok /\ drvCfg.driver # "echo_test" THEN @ ELSE "closed"]
    /\ UNCHANGED <<drvCfg, notDrv>>

\* the copying ends and the deferred Close runs
CloseStream(s) ==
    /\ drv[s].at = "copying"
    /\ drv' = [drv EXCEPT ![s].at = "closed"]
    /\ UNCHANGED <<drvCfg, notDrv>>

(***************************************************************************)
(* Part XI.  The UDP forwarder of StartDataPlaneUDP and                    *)
(* StartDTLSDataPlaneUDP: startUDPLocalToStream and startStreamToUDPLocal  *)
(* run as two goroutines that share errCh, lastSrc and lastSrcMu; the      *)
(* driver returns <-errCh and its deferred closes close the local socket   *)
(* and the stream.                                                         *)
(***************************************************************************)
\* errCh := make(chan error, 2)
ErrChCap == 2

Addrs == {1, 2}
NoAddr == 0

\* what uc.ReadFromUDP may return in n: buf has udpMaxPacketSize bytes
LocalSizes == {0, 1, udpMaxPacketSize}

\* no frame written yet; no frame looked up yet
NoFrame == [hdr |-> <<>>, n |-> 0]
NoSent == [frame |-> 0, dst |-> NoAddr, sent |-> FALSE]

FwInit ==
    /\ fwMain = [at |-> "wait", err |-> "nil", closed |-> FALSE]
    /\ fwUp = [at |-> "read", n |-> 0, src |-> NoAddr, err |-> "nil", reads |-> 0,
               sends |-> 0, rank |-> 0]
    /\ fwDown = [at |-> "read", frame |-> 0, dst |-> NoAddr, err |-> "nil",
                 drops |-> 0, sends |-> 0, rank |-> 0]
    /\ errCh = <<>>
    /\ lastSrc = NoAddr
    /\ lastSrcMu = [w |-> FALSE, r |-> 0]
    /\ fwOut = NoFrame
    /\ fwSent = NoSent

\* where a loop goes after errCh <- err
AfterSend_Continue == "read"
AfterSend == "done"

\* if n <= 0 { continue }
SkipsPacket_Never(n) == FALSE
SkipsPacket(n) == n <= 0

\* n, src, err := uc.ReadFromUDP(buf); a closed socket gives an error.  A
\* packet of more than 256 bytes is the first of its run.
LocalRead(n, src, ok) ==
    /\ fwUp.at = "read"
    /\ fwMain.closed => ~ok
    /\ ok => fwUp.reads < MaxFrames
    /\ (ok /\ n > 256) => fwUp.reads = 0
    /\ fwUp' = IF ~ok THEN [fwUp EXCEPT !.at = "send", !.err = "use of closed network connection"]
               ELSE IF SkipsPacket(n) THEN [fwUp EXCEPT !.reads = @ + 1]
               ELSE [fwUp EXCEPT !.at = "lock", !.n = n, !.src = src, !.reads = @ + 1]
    /\ UNCHANGED <<fwMain, fwDown, errCh, lastSrc, lastSrcMu, fwOut, fwSent, notFw>>

\* lastSrcMu.Lock()
LocalLock ==
    /\ fwUp.at = "lock"
    /\ ~lastSrcMu.w /\ lastSrcMu.r = 0
    /\ lastSrcMu' = [lastSrcMu EXCEPT !.w = TRUE]
    /\ fwUp' = [fwUp EXCEPT !.at = "store"]
    /\ UNCHANGED <<fwMain, fwDown, errCh, lastSrc, fwOut, fwSent, notFw>>

\* *lastSrc = src; lastSrcMu.Unlock()
LocalStore ==
    /\ fwUp.at = "store"
    /\ lastSrc' = fwUp.src
    /\ lastSrcMu' = [lastSrcMu EXCEPT !.w = FALSE]
    /\ fwUp' = [fwUp EXCEPT !.at = "write"]
    /\ UNCHANGED <<fwMain, fwDown, errCh, fwOut, fwSent, notFw>>

\* the frame a writeUDPPacket call left on the stream
FrameOut(out) == [hdr |-> SubSeq(out, 1, Min(2, Len(out))), n |-> IF Len(out) > 2 THEN Len(out) - 2 ELSE 0]

LocalWritten(r) ==
    /\ fwOut' = IF r.out = <<>> THEN fwOut ELSE FrameOut(r.out)
    /\ fwUp' = IF r.err = "nil" THEN [fwUp EXCEPT !.at = "read"]
               ELSE [fwUp EXCEPT !.at = "send", !.err = r.err]

\* writeUDPPacket(wrapped, buf[:n]); a closed stream takes nothing
LocalWrite(failAt) ==
    /\ fwUp.at = "write"
    /\ fwMain.closed => failAt = 1
    /\ LocalWritten(writeUDPPacket(Payload(fwUp.n, 0), failAt))
    /\ UNCHANGED <<fwMain, fwDown, errCh, lastSrc, lastSrcMu, fwSent, notFw>>

\* errCh <- err, which waits while the channel is full; then return.  rank
\* notes which send of the run it was.
LocalSend ==
    /\ fwUp.at = "send"
    /\ Len(errCh) < ErrChCap
    /\ errCh' = Append(errCh, fwUp.err)
    /\ fwUp' = [fwUp EXCEPT !.at = AfterSend, !.sends = @ + 1,
                            !.rank = fwUp.sends + fwDown.sends + 1]
    /\ UNCHANGED <<fwMain, fwDown, lastSrc, lastSrcMu, fwOut, fwSent, notFw>>

\* packet, err := readUDPPacket(wrapped); a closed stream gives an error
StreamRead(ok) ==
    /\ fwDown.at = "read"
    /\ fwMain.closed => ~ok
    /\ ok => fwDown.frame < MaxFrames
    /\ fwDown' = IF ok THEN [fwDown EXCEPT !.at = "rlock", !.frame = @ + 1]
                 ELSE [fwDown EXCEPT !.at = "send", !.err = "EOF"]
    /\ UNCHANGED <<fwMain, fwUp, errCh, lastSrc, lastSrcMu, fwOut, fwSent, notFw>>

\* whether lastSrcMu.RLock() gets through
CanRLock_Unlocked(m) == TRUE
CanRLock(m) == ~m.w

\* lastSrcMu.RLock()
StreamRLock ==
    /\ fwDown.at = "rlock"
    /\ CanRLock(lastSrcMu)
    /\ lastSrcMu' = [lastSrcMu EXCEPT !.r = @ + 1]
    /\ fwDown' = [fwDown EXCEPT !.at = "load"]
    /\ UNCHANGED <<fwMain, fwUp, errCh, lastSrc, fwOut, fwSent, notFw>>

\* dst := *lastSrc; lastSrcMu.RUnlock(); if dst == nil { continue }
StreamLoad ==
    /\ fwDown.at = "load"
    /\ lastSrcMu' = [lastSrcMu EXCEPT !.r = @ - 1]
    /\ fwDown' = [fwDown EXCEPT !.dst = lastSrc,
                                !.at = IF lastSrc = NoAddr THEN "read" ELSE "write",
                                !.drops = IF lastSrc = NoAddr THEN @ + 1 ELSE @]
    /\ fwSent' = IF lastSrc = NoAddr
                    THEN [frame |-> fwDown.frame, dst |-> NoAddr, sent |-> FALSE]
                    ELSE fwSent
    /\ UNCHANGED <<fwMain, fwUp, errCh, lastSrc, fwOut, notFw>>

\* uc.WriteToUDP(packet, dst); a closed socket gives an error
StreamWrite(ok) ==
    /\ fwDown.at = "write"
    /\ fwMain.closed => ~ok
    /\ fwSent' = [frame |-> fwDown.frame, dst |-> fwDown.dst, sent |-> ok]
    /\ fwDown' = IF ok THEN [fwDown EXCEPT !.at = "read"]
                 ELSE [fwDown EXCEPT !.at = "send", !.err = "write"]
    /\ UNCHANGED <<fwMain, fwUp, errCh, lastSrc, lastSrcMu, fwOut, notFw>>

\* errCh <- err, then return
StreamSend ==
    /\ fwDown.at = "send"
    /\ Len(errCh) < ErrChCap
    /\ errCh' = Append(errCh, fwDown.err)
    /\ fwDown' = [fwDown EXCEPT !.at = AfterSend, !.sends = @ + 1,
                                !.rank = fwUp.sends + fwDown.sends + 1]
    /\ UNCHANGED <<fwMain, fwUp, lastSrc, lastSrcMu, fwOut, fwSent, notFw>>

\* return <-errCh, and the deferred uc.Close(), stream.Close() (conn.Close())
ForwarderReturn ==
    /\ fwMain.at = "wait"
    /\ errCh # <<>>
    /\ fwMain' = [at |-> "returned", err |-> Head(errCh), closed |-> TRUE]
    /\ errCh' = Tail(errCh)
    /\ UNCHANGED <<fwUp, fwDown, lastSrc, lastSrcMu, fwOut, fwSent, notFw>>

LocalStep ==
    \/ \E n \in LocalSizes : \E src \in Addrs : \E ok \in BOOLEAN : LocalRead(n, src, ok)
    \/ LocalLock
    \/ LocalStore
    \/ \E failAt \in 0..2 : LocalWrite(failAt)
    \/ LocalSend

StreamStep ==
    \/ \E ok \in BOOLEAN : StreamRead(ok)
    \/ StreamRLock
    \/ StreamLoad
    \/ \E ok \in BOOLEAN : StreamWrite(ok)
    \/ StreamSend

(***************************************************************************)
(* Part XII.  One bridged connection: the goroutine of serve_listen        *)
(* (PipeStreams between the accepted socket and the stream, then the       *)
(* deferred SafeClose of both) and serveIncomingStream (the dialed backend *)
(* and the accepted stream).  Endpoint a is the local side (the accepted   *)
(* socket, the dialed backend), endpoint b is the stream.  An endpoint is  *)
(* at end-of-stream once its peer has closed, and closed once the client   *)
(* has closed it.                                                          *)
(***************************************************************************)
Modes == {"listen", "incoming"}
Ends == {"a", "b"}
DoneCap == 2

\* the source and the destination of a copy direction
SrcOf(d) == IF d = "a->b" THEN "a" ELSE "b"
DstOf(d) == IF d = "a->b" THEN "b" ELSE "a"

OpenEnd == [eof |-> FALSE, closed |-> FALSE]

HdIdle ==
    /\ hdMode = "listen"
    /\ hdBuffered = FALSE
    /\ hdMain = "start"
    /\ hdCopy = [d \in Directions |-> "none"]
    /\ hdDone = 0
    /\ hdEnds = [e \in Ends |-> OpenEnd]

\* after the preface is written (serve_listen), after the backend is dialed
\* (serveIncomingStream, with or without payload left in the preface reader)
HdInit ==
    /\ hdMode \in Modes
    /\ hdBuffered \in BOOLEAN
    /\ hdMode = "listen" => ~hdBuffered
    /\ hdMain = "start"
    /\ hdCopy = [d \in Directions |-> "none"]
    /\ hdDone = 0
    /\ hdEnds = [e \in Ends |-> OpenEnd]

\* a Read of endpoint e returns without data: its peer closed, or it is closed
ReadEnds(e) == hdEnds[e].eof \/ hdEnds[e].closed
\* a Write to endpoint e fails (when there is something to write)
WriteFails(e) == hdEnds[e].eof \/ hdEnds[e].closed

\* the peer of the local side, the remote side of the stream, closes
PeerCloses(e) ==
    /\ hdMain # "returned"
    /\ ~hdEnds[e].eof
    /\ hdEnds' = [hdEnds EXCEPT ![e].eof = TRUE]
    /\ UNCHANGED <<hdMode, hdBuffered, hdMain, hdCopy, hdDone, notHd>>

\* PipeStreams: both copy goroutines start, then <-done
PipeStart ==
    /\ hdMode = "listen" /\ hdMain = "start"
    /\ hdCopy' = [d \in Directions |-> "copy"]
    /\ hdMain' = "wait"
    /\ UNCHANGED <<hdMode, hdBuffered, hdDone, hdEnds, notHd>>

\* io.CopyBuffer, io.Copy of a goroutine returns: in PipeStreams the goroutine
\* goes on to done <- struct{}{}, in serveIncomingStream it ends
CopyReturns(d) ==
    /\ hdCopy[d] = "copy"
    /\ ReadEnds(SrcOf(d)) \/ WriteFails(DstOf(d))
    /\ hdCopy' = [hdCopy EXCEPT ![d] = IF hdMode = "listen" THEN "send" ELSE "done"]
    /\ UNCHANGED <<hdMode, hdBuffered, hdMain, hdDone, hdEnds, notHd>>

\* done <- struct{}{}
DoneSend(d) ==
    /\ hdCopy[d] = "send"
    /\ hdDone < DoneCap
    /\ hdDone' = hdDone + 1
    /\ hdCopy' = [hdCopy EXCEPT ![d] = "done"]
    /\ UNCHANGED <<hdMode, hdBuffered, hdMain, hdEnds, notHd>>

\* <-done, and PipeStreams returns
PipeMayReturn_Always(n) == TRUE
PipeMayReturn(n) == n > 0

PipeReturn ==
    /\ hdMode = "listen" /\ hdMain = "wait"
    /\ PipeMayReturn(hdDone)
    /\ hdDone' = hdDone - 1
    /\ hdMain' = "deferred"
    /\ UNCHANGED <<hdMode, hdBuffered, hdCopy, hdEnds, notHd>>

\* if rd.Buffered() > 0 { io.Copy(bc, rd) }: the copy goes on reading the
\* stream behind rd
DrainStart ==
    /\ hdMode = "incoming" /\ hdMain = "start"
    /\ hdMain' = IF hdBuffered THEN "drain" ELSE "spawn"
    /\ UNCHANGED <<hdMode, hdBuffered, hdCopy, hdDone, hdEnds, notHd>>

\* io.Copy(bc, rd) returns: nil at the end of the stream, the error of a
\* Read of the closed stream or of a Write to the backend
DrainReturns ==
    /\ hdMode = "incoming" /\ hdMain = "drain"
    /\ \/ hdEnds["b"].eof /\ ~hdEnds["b"].closed /\ hdMain' = "spawn"
       \/ (hdEnds["b"].closed \/ WriteFails("a")) /\ hdMain' = "deferred"
    /\ UNCHANGED <<hdMode, hdBuffered, hdCopy, hdDone, hdEnds, notHd>>

\* go func() { io.Copy(stream, bc) }(), then io.Copy(bc, stream)
Spawn ==
    /\ hdMode = "incoming" /\ hdMain = "spawn"
    /\ hdCopy' = [hdCopy EXCEPT !["a->b"] = "copy"]
    /\ hdMain' = "copy"
    /\ UNCHANGED <<hdMode, hdBuffered, hdDone, hdEnds, notHd>>

\* io.Copy(bc, stream) returns
MainCopyReturns ==
    /\ hdMode = "incoming" /\ hdMain = "copy"
    /\ ReadEnds("b") \/ WriteFails("a")
    /\ hdMain' = "deferred"
    /\ UNCHANGED <<hdMode, hdBuffered, hdCopy, hdDone, hdEnds, notHd>>

\* the deferred calls, last deferred first: SafeClose(stream) then SafeClose(c)
\* in serve_listen, bc.Close() then stream.Close() in serveIncomingStream
FirstDeferred == IF hdMode = "listen" THEN "b" ELSE "a"
SecondDeferred == IF hdMode = "listen" THEN "a" ELSE "b"

DeferredFirst ==
    /\ hdMain = "deferred"
    /\ hdEnds' = [hdEnds EXCEPT ![FirstDeferred].closed = TRUE]
    /\ hdMain' = "closing"
    /\ UNCHANGED <<hdMode, hdBuffered, hdCopy, hdDone, notHd>>

DeferredSecond ==
    /\ hdMain = "closing"
    /\ hdEnds' = [hdEnds EXCEPT ![SecondDeferred].closed = TRUE]
    /\ hdMain' = "returned"
    /\ UNCHANGED <<hdMode, hdBuffered, hdCopy, hdDone, notHd>>

\* the steps of the handler's own goroutine
MainStep ==
    \/ PipeStart
    \/ PipeReturn
    \/ DrainStart
    \/ DrainReturns
    \/ Spawn
    \/ MainCopyReturns
    \/ DeferredFirst
    \/ DeferredSecond

\* a Read of the source of direction d returns without data
SrcEnded(d) == ReadEnds(SrcOf(d))

(***************************************************************************)
(* Part XIII.  A parallel echo run: runParallelQUICStreams over one QUIC   *)
(* connection and StartDataPlaneParallel over one smux session start one   *)
(* goroutine per stream, each stores its error in its own slot, and the    *)
(* run returns the first non-nil slot after wg.Wait().                     *)
(***************************************************************************)
Runs == {"quic", "smux"}
Tasks == 1..NumStreams

NoTaskErr == [task |-> 0, what |-> "nil"]
TaskErr(i, what) == [task |-> i, what |-> what]
TaskStart == [at |-> "open", failed |-> FALSE, eof |-> FALSE]
NoReturn == [done |-> FALSE, err |-> NoTaskErr]

\* after wg.Add(parallel) and make([]error, parallel)
ParInit ==
    /\ parRun \in Runs
    /\ parTask = [i \in Tasks |-> TaskStart]
    /\ retErr = [i \in Tasks |-> NoTaskErr]
    /\ wg = NumStreams
    /\ parRet = NoReturn

ParIdle ==
    /\ parRun = "quic"
    /\ parTask = [i \in Tasks |-> TaskStart]
    /\ retErr = [i \in Tasks |-> NoTaskErr]
    /\ wg = NumStreams
    /\ parRet = NoReturn

\* a step of task i fails: the error goes to its slot and the goroutine returns
TaskFails(i, what) ==
    /\ parTask' = [parTask EXCEPT ![i] = [at |-> "exit", failed |-> TRUE, eof |-> FALSE]]
    /\ retErr' = [retErr EXCEPT ![i] = TaskErr(i, what)]

TaskGoes(i, to) ==
    /\ parTask' = [parTask EXCEPT ![i].at = to]
    /\ UNCHANGED retErr

\* qc.OpenStreamSync, client.Session().OpenStream()
TaskOpen(i, ok) ==
    /\ parTask[i].at = "open"
    /\ IF ok THEN TaskGoes(i, "preface") ELSE TaskFails(i, "open stream")
    /\ UNCHANGED <<parRun, wg, parRet, notPar>>

\* the preface (and, over QUIC, the destination line)
TaskPreface(i, ok) ==
    /\ parTask[i].at = "preface"
    /\ IF ok THEN TaskGoes(i, "payload") ELSE TaskFails(i, "write preface")
    /\ UNCHANGED <<parRun, wg, parRet, notPar>>

\* the message "hello stream i"
TaskPayload(i, ok) ==
    /\ parTask[i].at = "payload"
    /\ IF ok THEN TaskGoes(i, "read") ELSE TaskFails(i, "write payload")
    /\ UNCHANGED <<parRun, wg, parRet, notPar>>

\* what the read of the echo leaves in the slot: over QUIC io.EOF becomes nil,
\* over smux every read error is wrapped and stored
ReadOutcomes == {"data", "io.EOF", "timeout"}
EchoError(run, r) == IF run = "quic" THEN r \notin {"data", "io.EOF"} ELSE r # "data"

TaskRead(i, r) ==
    /\ parTask[i].at = "read"
    /\ parTask' = [parTask EXCEPT ![i] = [at |-> "exit", failed |-> EchoError(parRun, r),
                                          eof |-> r = "io.EOF"]]
    /\ retErr' = [retErr EXCEPT ![i] = IF EchoError(parRun, r) THEN TaskErr(i, r)
                                                                ELSE NoTaskErr]
    /\ UNCHANGED <<parRun, wg, parRet, notPar>>

\* defer wg.Done()
TaskDone(i) ==
    /\ parTask[i].at = "exit"
    /\ parTask' = [parTask EXCEPT ![i].at = "done"]
    /\ wg' = wg - 1
    /\ UNCHANGED <<parRun, retErr, parRet, notPar>>

\* for _, e := range retErr { if e != nil { return e } }; return nil
RECURSIVE FirstError(_, _)
FirstError(slots, i) ==
    IF i > Len(slots) THEN NoTaskErr
    ELSE IF slots[i] # NoTaskErr THEN slots[i]
    ELSE FirstError(slots, i + 1)

\* wg.Wait() returns
WaitOver_AtOnce(n) == TRUE
WaitOver(n) == n = 0

ParReturn ==
    /\ ~parRet.done
    /\ WaitOver(wg)
    /\ parRet' = [done |-> TRUE, err |-> FirstError([i \in Tasks |-> retErr[i]], 1)]
    /\ UNCHANGED <<parRun, parTask, retErr, wg, notPar>>

TaskStep(i) ==
    \/ \E ok \in BOOLEAN : TaskOpen(i, ok) \/ TaskPreface(i, ok) \/ TaskPayload(i, ok)
    \/ \E r \in ReadOutcomes : TaskRead(i, r)
    \/ TaskDone(i)

(***************************************************************************)
(* Part XIV.  Frames in transit.  Between the writing ClientAEAD and the   *)
(* reading one the bytes cross a transport that may alter a byte of a      *)
(* frame, deliver a frame a second time, or deliver two frames in the      *)
(* other order.  transit records the one thing the transport did.          *)
(***************************************************************************)
NoTransit == [op |-> "none", frame |-> 0, at |-> 0, field |-> "none"]
Fields == {"nonce", "ciphertext", "tag"}

TrIdle == transit = NoTransit

\* the bytes the n-th Seal call's Write put on the base stream
FrameBytes(n) ==
    Header(seals[n].pt, Seal(n, seals[n].pt), seals[n].nonce) \o Seal(n, seals[n].pt)

\* where the n-th frame begins on a stream that carries whole frames only
RECURSIVE SealedStart(_)
SealedStart(n) == IF n <= 1 THEN 0 ELSE SealedStart(n - 1) + Len(FrameBytes(n - 1))

\* every Write so far is one of stream w and was taken whole
WholeFrames(w) ==
    /\ Len(seals) = Len(sent[w])
    /\ \A n \in 1..Len(seals) : seals[n].w = w /\ sent[w][n].ok

\* one bit of a byte flipped
Flip(x) == IF x < CtBase THEN (x + 1) % 256 ELSE x + 1

\* the place of the altered byte in its frame: the last byte of the nonce,
\* the first byte of the ciphertext, the last byte of the tag
FieldAt(n, field) ==
    CASE field = "nonce" -> LenSize + NonceSize
      [] field = "ciphertext" -> LenSize + NonceSize + 1
      [] OTHER -> Len(FrameBytes(n))

notAeadTr == <<mgrVars, udpVars, pingVars, brVars, wsVars, quicVars, secVars, pfVars,
               drvVars, fwVars, hdVars, parVars, wbVars, wcVars, inVars, siVars, cwVars>>

\* a byte of frame f changes before the reader has reached the frame
AlterInTransit(w, f, field) ==
    /\ transit = NoTransit
    /\ WholeFrames(w) /\ f \in 1..Len(seals)
    /\ peer[w].pos <= SealedStart(f)
    /\ wire' = [wire EXCEPT ![w][SealedStart(f) + FieldAt(f, field)] = Flip(@)]
    /\ transit' = [op |-> "alter", frame |-> f, at |-> f, field |-> field]
    /\ UNCHANGED <<AeadCfg, aead, wend, seals, sent, peer, got, notAeadTr>>

\* frame f arrives once more, after the frames written so far
ReplayInTransit(w, f) ==
    /\ transit = NoTransit
    /\ WholeFrames(w) /\ f \in 1..Len(seals)
    /\ wend[w] = "open"
    /\ wire' = [wire EXCEPT ![w] = @ \o FrameBytes(f)]
    /\ transit' = [op |-> "replay", frame |-> f, at |-> Len(seals) + 1, field |-> "none"]
    /\ UNCHANGED <<AeadCfg, aead, wend, seals, sent, peer, got, notAeadTr>>

\* the first two frames arrive in the other order
SwapInTransit(w) ==
    /\ transit = NoTransit
    /\ WholeFrames(w) /\ Len(seals) >= 2
    /\ peer[w].pos = 0
    /\ wire' = [wire EXCEPT ![w] = FrameBytes(2) \o FrameBytes(1)
                                     \o SubSeq(@, SealedStart(3) + 1, Len(@))]
    /\ transit' = [op |-> "swap", frame |-> 2, at |-> 1, field |-> "none"]
    /\ UNCHANGED <<AeadCfg, aead, wend, seals, sent, peer, got, notAeadTr>>

\* the Seal calls whose frames stand on the stream, in the order they arrive
Written(w) == [n \in 1..Len(sent[w]) |-> n]
WireOrder(w) ==
    CASE transit.op = "replay" ->
             SubSeq(Written(w), 1, transit.at - 1) \o <<transit.frame>>
                 \o SubSeq(Written(w), transit.at, Len(sent[w]))
      [] transit.op = "swap" -> <<2, 1>> \o SubSeq(Written(w), 3, Len(sent[w]))
      [] OTHER -> Written(w)

(***************************************************************************)
(* Part XV.  UDP frames on the encrypted stream: in StartDataPlaneUDP      *)
(* writeUDPPacket writes to, and readUDPPacket reads from, the ClientAEAD  *)
(* that WrapClientStream returned.  Every w.Write is one ClientAEAD.Write, *)
(* every Read that io.ReadFull makes is one ClientAEAD.Read.               *)
(***************************************************************************)
SealedPayloads == {Payload(n, 0) : n \in {1, MaxSmallLen, 256, udpMaxPacketSize}}

\* what one writer holds: c.encCtr, the bytes on its base stream, the Seal
\* calls and the Write calls so far
WriterOf(w) == [ctr |-> aead[w].encCtr, wire |-> wire[w], seals |-> seals, sent |-> sent[w]]

\* ClientAEAD.Write(p) under key; fails: the base stream refuses the header
WriteOne(s, w, key, p, fails) ==
    [ctr |-> CtrAfterWrite(s.ctr, ~fails),
     wire |-> IF fails THEN s.wire
              ELSE s.wire \o Header(p, Seal(Len(s.seals) + 1, p), Nonce(s.ctr))
                          \o Seal(Len(s.seals) + 1, p),
     seals |-> Append(s.seals, [w |-> w, key |-> key, nonce |-> Nonce(s.ctr), pt |-> p]),
     sent |-> Append(s.sent, [pt |-> p, ok |-> ~fails])]

\* the Write calls of writeUDPPacket(w, payload): the header, then the payload
WritesOf_Joined(payload) == <<PutBigEndian(Len(payload), 2) \o payload>>
WritesOf(payload) == <<PutBigEndian(Len(payload), 2), payload>>

\* the Write calls made one after the other; the failAt-th fails and ends them
RECURSIVE WriteAll(_, _, _, _, _, _)
WriteAll(s, w, key, ws, i, failAt) ==
    IF i > Len(ws) THEN s
    ELSE IF i = failAt THEN WriteOne(s, w, key, ws[i], TRUE)
    ELSE WriteAll(WriteOne(s, w, key, ws[i], FALSE), w, key, ws, i + 1, failAt)

SealedWritten(w, s, payload, failAt) ==
    /\ aead' = [aead EXCEPT ![w].encCtr = s.ctr]
    /\ wire' = [wire EXCEPT ![w] = s.wire]
    /\ seals' = s.seals
    /\ sent' = [sent EXCEPT ![w] = s.sent]
    /\ wend' = [wend EXCEPT ![w] = IF failAt = 0 THEN @ ELSE "broken"]
    /\ udpSent' = Append(udpSent, [payload |-> payload,
                                   err |-> IF failAt = 0 THEN "nil" ELSE "write"])
    /\ udpEnded' = (failAt # 0)

\* writeUDPPacket(wrapped, payload); a writer that got an error writes no
\* more.  A payload of more than 256 bytes is the first its stream carries.
UdpSealedWrite(w, payload, failAt) ==
    /\ aead[w].made /\ aead[w].wrapped
    /\ ~udpEnded
    /\ Len(udpSent) < MaxFrames
    /\ (Len(payload) > 256) => udpSent = <<>>
    /\ ToUint16SizeOk(Len(payload))
    /\ SealedWritten(w, WriteAll(WriterOf(w), w, aead[w].key, WritesOf(payload), 1, failAt),
                     payload, failAt)
    /\ UNCHANGED <<AeadCfg, peer, got, udpWire, udpPos, udpGot, mgrVars, restVars>>

\* io.ReadFull(r, buf) with len(buf) = need on a ClientAEAD reader: Read is
\* called until buf is full or a Read fails; an error that comes with the
\* last bytes of buf is dropped.  acc: the bytes gathered, used: the bytes
\* of the base stream consumed, reads: the Read calls made, short: a Read
\* returned io.ErrShortBuffer
NoneRead == [data |-> <<>>, used |-> 0, reads |-> 0, short |-> FALSE, err |-> "nil",
             blocks |-> FALSE]

Gathered(a, r) ==
    [data |-> a.data \o r.data, used |-> a.used + r.used, reads |-> a.reads + 1,
     short |-> a.short \/ r.err = "short buffer", err |-> "nil", blocks |-> FALSE]

RECURSIVE ReadFull(_, _, _, _, _)
ReadMore(key, rest, ended, need, a, r) ==
    IF r.blocks THEN [a EXCEPT !.blocks = TRUE]
    ELSE IF Len(a.data) + r.n >= need THEN Gathered(a, r)
    ELSE IF r.err # "nil"
       THEN [Gathered(a, r) EXCEPT !.err = IF r.err = "EOF" /\ Len(a.data) + r.n > 0
                                              THEN "unexpected EOF" ELSE r.err]
    ELSE ReadFull(key, rest, ended, need, Gathered(a, r))

ReadFull(key, rest, ended, need, a) ==
    IF need = 0 THEN a
    ELSE ReadMore(key, rest, ended, need, a,
                  ReadFrame(key, SubSeq(rest, a.used + 1, Len(rest)), ended,
                            need - Len(a.data)))

\* readUDPPacket(wrapped): h is what io.ReadFull(r, hdr[:]) gave, b what
\* io.ReadFull(r, buf) gave after it
PacketRead(h, b) ==
    [err |-> b.err, pkt |-> IF b.err = "nil" THEN b.data ELSE <<>>, used |-> b.used,
     reads |-> b.reads, short |-> b.short, blocks |-> b.blocks]

readSealedPacket(key, rest, ended, h) ==
    IF h.blocks \/ h.err # "nil" THEN PacketRead(h, h)
    ELSE IF BadSize(BigEndian(h.data))
       THEN PacketRead(h, [h EXCEPT !.err = "unexpected EOF"])
    ELSE PacketRead(h, ReadFull(key, rest, ended, BigEndian(h.data),
                                [h EXCEPT !.data = <<>>]))

SealedReadDone(w, r) ==
    /\ ~r.blocks
    /\ peer' = [peer EXCEPT ![w].pos = @ + r.used]
    /\ udpGot' = Append(udpGot, [err |-> r.err, pkt |-> r.pkt, used |-> r.used,
                                 reads |-> r.reads, short |-> r.short])

\* one readUDPPacket call on the reading ClientAEAD of stream w
UdpSealedRead(w) ==
    /\ peer[w].made
    /\ Len(udpGot) < MaxFrames
    /\ SealedReadDone(w, readSealedPacket(peer[w].key,
                             SubSeq(wire[w], peer[w].pos + 1, Len(wire[w])), wend[w] # "open",
                             ReadFull(peer[w].key,
                                      SubSeq(wire[w], peer[w].pos + 1, Len(wire[w])),
                                      wend[w] # "open", 2, NoneRead)))
    /\ UNCHANGED <<AeadCfg, aead, wire, wend, seals, sent, got, udpWire, udpEnded, udpSent,
                   udpPos, mgrVars, restVars>>

(***************************************************************************)
(* Part XVI.  The bytes WSConn.Read returns.  A byte of a message is the   *)
(* place of the message among those that arrived and its place in the      *)
(* message.  wsArrived lists the messages that arrived, wsBytes the bytes  *)
(* the Read calls returned.                                                *)
(***************************************************************************)
WbInit ==
    /\ wsArrived = <<>>
    /\ wsBytes = <<>>

\* bytes from + 1 .. from + n of message k
BytesOf(k, from, n) == [i \in 1..n |-> <<k, from + i>>]

notWsWb == <<mgrVars, aeadVars, udpVars, pingVars, brVars, quicVars, secVars, pfVars,
             drvVars, fwVars, hdVars, parVars, trVars, wcVars, inVars, siVars, cwVars>>

\* the message the reader stands on after a Read is the last one taken from
\* the queue; the n bytes returned end where the reader now stands
ReadBytes(n) ==
    BytesOf(Len(wsArrived) - Len(wsIn'),
            wsArrived[Len(wsArrived) - Len(wsIn')].len - wsCur'.left - n, n)

WsReadLogged(size) ==
    /\ WsReads(size)
    /\ wsBytes' = IF wsRes'.n > 0 THEN wsBytes \o ReadBytes(wsRes'.n) ELSE wsBytes
    /\ UNCHANGED <<wsArrived, notWsWb>>

WsArriveLogged(mt, len) ==
    /\ Len(wsArrived) <= MaxWsMsgs
    /\ WsArrives(mt, len)
    /\ wsArrived' = Append(wsArrived, [mt |-> mt, len |-> len])
    /\ UNCHANGED <<wsBytes, notWsWb>>

(***************************************************************************)
(* Part XVII.  WSConn.Close: the close frame, then the socket.             *)
(***************************************************************************)
NoClose == [returned |-> FALSE, frame |-> "none", socketClosed |-> FALSE, err |-> "nil"]

WcInit == wsClose = NoClose

\* what conn.WriteMessage(websocket.CloseMessage, ...) can give: on a
\* connection that answered the peer's close frame websocket.ErrCloseSent, on
\* one that failed an error of the socket, on an open one either the frame
\* is sent or the socket turns out broken
FrameOutcomes ==
    CASE wsEnd = "closed" -> {"ErrCloseSent"}
      [] wsEnd = "failed" -> {"write error"}
      [] OTHER -> {"sent", "write error"}

\* writeErr != nil && !errors.Is(writeErr, websocket.ErrCloseSent)
ReturnsWriteErr(frame) == frame \notin {"sent", "ErrCloseSent"}

\* WSConn.Close(); closeErr is what conn.Close() gives
WsClose(frame, closeErr) ==
    /\ ~wsClose.returned
    /\ frame \in FrameOutcomes
    /\ wsClose' = IF ReturnsWriteErr(frame)
                     THEN [returned |-> TRUE, frame |-> frame, socketClosed |-> FALSE,
                           err |-> frame]
                     ELSE [returned |-> TRUE, frame |-> frame, socketClosed |-> TRUE,
                           err |-> closeErr]
    /\ UNCHANGED notWc

(***************************************************************************)
(* Part XVIII.  An inbound stream, read as it arrives: the preface reader  *)
(* (bufio.Reader over the stream), readStreamDestination on it, and the    *)
(* copies of serveIncomingStream that carry the payload to the backend.    *)
(***************************************************************************)
\* what follows the preface on the streams served here
PayloadTokens == {"str", "nl", "one"}

RECURSIVE PayloadsUpTo(_)
PayloadsUpTo(n) ==
    IF n = 0 THEN {<<>>}
    ELSE PayloadsUpTo(n - 1) \cup {Append(s, k) : s \in PayloadsUpTo(n - 1), k \in PayloadTokens}

\* {"dst":"x"} and its newline, after no, one or two blank lines
DstLine == <<"dstkey", "str", "rbrace", "nl">>
Leads == {<<>>, <<"nl">>, <<"sp", "nl">>}
ServedStreams == {l \o DstLine \o p : l \in Leads, p \in PayloadsUpTo(MaxTokens - 1)}

\* streams whose first non-blank line starts with PrefaceCap spaces: a line
\* with a dst and payload behind it, a line of one token, a line cut short
LongStreams ==
    {l \o <<"pad">> \o DstLine \o p : l \in Leads, p \in PayloadsUpTo(MaxPtLen)}
    \cup {<<"pad", k, "nl">> : k \in Tokens}
    \cup {<<"pad", k>> : k \in Tokens}

NoRead == [done |-> FALSE, dst |-> <<>>, err |-> "nil", next |-> 0]
NoInbound ==
    [at |-> "preface", w |-> 0, r |-> 1, dst |-> <<>>, held |-> 0, out |-> <<>>,
     err |-> "nil", closed |-> FALSE]

InIdle ==
    /\ rdOut = NoRead
    /\ inb = NoInbound

\* readStreamDestination(rd) on a reader over the stream of inTokens
ReadDestination ==
    /\ ~rdOut.done
    /\ rdOut' = [done |-> TRUE] @@ readStreamDestination(StreamBytes(inTokens), 1)
    /\ UNCHANGED <<inb, notIn>>

\* the sizes of the pieces in which a stream with `left` bytes to come
\* gives them to Read
Pieces(left) == {n \in {1, MaxPtLen, left} : n >= 1 /\ n <= left}

\* every return of serveIncomingStream runs the deferred stream.Close()
Returned(b, err) == [b EXCEPT !.at = "done", !.err = err, !.closed = TRUE]

\* readStreamDestination once the reader holds the first w bytes of the
\* stream and ReadString met what d describes: no newline yet ("EOF" on the
\* bytes so far), or the first non-blank line
AfterFill(b, w, d) ==
    IF d.err = "EOF" THEN [b EXCEPT !.w = w]
    ELSE IF StopsBeforeDial(d.err, d.dst) THEN Returned([b EXCEPT !.w = w], d.err)
    ELSE [b EXCEPT !.at = "dial", !.w = w, !.r = d.next, !.dst = d.dst]

\* rd.ReadString('\n') fills the buffer with the next n bytes of the stream
InFill(n) ==
    /\ inb.at = "preface"
    /\ n \in Pieces(Len(StreamBytes(inTokens)) - inb.w)
    /\ inb' = AfterFill(inb, inb.w + n,
                        readStreamDestination(SubSeq(StreamBytes(inTokens), 1, inb.w + n), 1))
    /\ UNCHANGED <<rdOut, notIn>>

\* the stream ends before the newline of a non-blank line
InEnds ==
    /\ inb.at = "preface"
    /\ inb.w = Len(StreamBytes(inTokens))
    /\ inb' = Returned(inb, "EOF")
    /\ UNCHANGED <<rdOut, notIn>>

\* rd.Buffered()
Buffered_None(b) == 0
Buffered(b) == b.w - b.r + 1

\* net.Dial("tcp", dst), and which copy comes first
InDial(ok) ==
    /\ inb.at = "dial"
    /\ inb' = IF ~ok THEN Returned(inb, "dial error")
              ELSE [inb EXCEPT !.at = IF Buffered(inb) > 0 THEN "drain" ELSE "copy"]
    /\ UNCHANGED <<rdOut, notIn>>

\* io.Copy(bc, rd), first half: bufio.Reader.WriteTo writes what the reader
\* holds
InDrain(ok) ==
    /\ inb.at = "drain"
    /\ inb' = IF ~ok THEN Returned(inb, "write error")
              ELSE [inb EXCEPT !.at = "readfrom", !.r = inb.w + 1, !.held = Buffered(inb),
                               !.out = @ \o SubSeq(StreamBytes(inTokens), inb.r, inb.w)]
    /\ UNCHANGED <<rdOut, notIn>>

\* io.Copy(bc, rd), second half (bc.ReadFrom(stream)), and io.Copy(bc,
\* stream): n bytes are read from the stream and written to the backend
InCopy(n, ok) ==
    /\ inb.at \in {"readfrom", "copy"}
    /\ n \in Pieces(Len(StreamBytes(inTokens)) - inb.w)
    /\ inb' = IF ~ok THEN Returned([inb EXCEPT !.w = inb.w + n, !.r = inb.w + n + 1],
                                   "write error")
              ELSE [inb EXCEPT !.w = inb.w + n, !.r = inb.w + n + 1,
                               !.out = @ \o SubSeq(StreamBytes(inTokens), inb.w + 1, inb.w + n)]
    /\ UNCHANGED <<rdOut, notIn>>

\* the copy meets the end of the stream, or an error of the stream
InCopyEnds(how) ==
    /\ inb.at \in {"readfrom", "copy"}
    /\ how = "EOF" => inb.w = Len(StreamBytes(inTokens))
    /\ inb' = IF how # "EOF" THEN Returned(inb, how)
              ELSE IF inb.at = "readfrom" THEN [inb EXCEPT !.at = "copy"]
              ELSE Returned(inb, "nil")
    /\ UNCHANGED <<rdOut, notIn>>

(***************************************************************************)
(* Part XIX.  StartDataPlaneServeIncoming: the accept loop over the        *)
(* Manager of Part I.  The driver is goroutine 1 of the manager's callers; *)
(* every accepted stream is served in a goroutine of its own.              *)
(***************************************************************************)
\* reconnectRetryDelay, in milliseconds
reconnectRetryDelay == 200

NoIncoming ==
    [at |-> "call", sess |-> NoSess, err |-> "nil", slept |-> 0, sleeps |-> 0,
     serving |-> 0, failed |-> 0, dead |-> {}]

SiInit == si = NoIncoming

notMgrSi == <<aeadVars, udpVars, pingVars, brVars, wsVars, quicVars, secVars, pfVars,
              drvVars, fwVars, hdVars, parVars, trVars, wbVars, wcVars, inVars, cwVars>>

\* sess, err := mgr.EnsureSession(): the call
SiCallEnsure ==
    /\ si.at = "call"
    /\ res[1].kind = "none"
    /\ CallEnsure(1)

\* the steps of the manager inside that call, and inside the deferred Close
SiMgrStep ==
    /\ si.at \in {"call", "closing"}
    /\ MgrStep(1)

\* if err != nil { return err }, else on to sess.AcceptStream()
SiAfterEnsure ==
    /\ si.at = "call"
    /\ pc[1] = "idle"
    /\ res[1].kind # "none"
    /\ si' = IF res[1].kind = "session"
                THEN [si EXCEPT !.at = "accept", !.sess = res[1].s]
                ELSE [si EXCEPT !.at = "closing", !.err = res[1].kind]
    /\ res' = [res EXCEPT ![1] = NoResult]
    /\ UNCHANGED <<MgrCfg, mu, stopped, sess, conn, created, closedSess, closedConn,
                   nconns, pc, backoff, callInfo, closeReturned, sessSleeps>>
    /\ UNCHANGED notMgrSi

\* where the driver goes when AcceptStream gave an error
AfterAcceptError_Return == "closing"
AfterAcceptError == "sleep"

\* st, err := sess.AcceptStream(): a stream arrives on a live session and a
\* goroutine is started for it, or the call fails
SiAccept(ok) ==
    /\ si.at = "accept"
    /\ ok => (si.sess \notin closedSess /\ si.serving < MaxCount)
    /\ si' = IF ok THEN [si EXCEPT !.at = "call", !.serving = @ + 1]
             ELSE [si EXCEPT !.at = AfterAcceptError, !.err = "accept error",
                             !.dead = IF si.sess \in closedSess THEN @ \cup {si.sess} ELSE @]
    /\ UNCHANGED notSi

\* time.Sleep(reconnectRetryDelay); continue
SiSleep ==
    /\ si.at = "sleep"
    /\ si' = [si EXCEPT !.at = "call", !.err = "nil", !.slept = reconnectRetryDelay,
                        !.sleeps = Sat(@)]
    /\ UNCHANGED notSi

\* the goroutine of one inbound stream ends: serveIncomingStream returned
\* nil or an error, which is logged at most
SiStreamEnds(failed) ==
    /\ si.serving > 0
    /\ si' = [si EXCEPT !.serving = @ - 1, !.failed = IF failed THEN Sat(@) ELSE @]
    /\ UNCHANGED notSi

\* the deferred mgr.Close() of a driver that returns
SiCallClose ==
    /\ si.at = "closing"
    /\ res[1].kind = "none"
    /\ CallClose(1)

SiReturn ==
    /\ si.at = "closing"
    /\ pc[1] = "idle"
    /\ res[1].kind = "closed"
    /\ si' = [si EXCEPT !.at = "returned"]
    /\ UNCHANGED notSi

(***************************************************************************)
(* Part XX.  control.ConnectWebSocket: the ping loop (the caller's own     *)
(* goroutine), the reader of control messages, the fallback watcher that   *)
(* polls the server, and the goroutine that waits for the "subscribed"     *)
(* acknowledgement.  They share the channel done and the sync.Once that    *)
(* closes it.                                                              *)
(***************************************************************************)
\* msg["type"] of a control message; "" when it has none or it is no string
MsgTypes == {"pong", "tunnel_closed", "subscribed", "error", "unknown", ""}

\* the places that call doneOnce.Do
Sites == {"tunnel_closed", "read error", "ping error", "poll"}

NoSignal == [closed |-> FALSE, once |-> FALSE, closes |-> 0, doers |-> {}]
NoWatch ==
    [main |-> "running", ping |-> "select", rd |-> "read", fb |-> "select",
     warn |-> "waiting", msg |-> "", nmsgs |-> 0, pingTick |-> FALSE, fbTick |-> FALSE,
     interval |-> FALSE, ack |-> FALSE, connClosed |-> FALSE]

CwIdle ==
    /\ done = NoSignal
    /\ cw = NoWatch

\* sync.Once: whether Do has run its function
OnceDone_Never(s) == FALSE
OnceDone(s) == s.once

\* doneOnce.Do(func() { close(done) }) called at a site
DoClose(s, site) ==
    [closed |-> TRUE, once |-> TRUE,
     closes |-> IF OnceDone(s) THEN s.closes ELSE s.closes + 1,
     doers |-> s.doers \cup {site}]

\* a ticker fires: its channel holds one tick at most.  The ping ticker is
\* stopped when ConnectWebSocket returns, the watcher's when it returns
CwTick(which) ==
    /\ \/ which = "ping" /\ cw.main = "running" /\ ~cw.pingTick
       \/ which = "poll" /\ cw.fb # "returned" /\ ~cw.fbTick
    /\ cw' = IF which = "ping" THEN [cw EXCEPT !.pingTick = TRUE]
             ELSE [cw EXCEPT !.fbTick = TRUE]
    /\ UNCHANGED <<done, notCw>>

\* the select of runPingLoop
CwPingSelect(branch) ==
    /\ cw.ping = "select"
    /\ \/ branch = "tick" /\ cw.pingTick
       \/ branch = "done" /\ done.closed
    /\ cw' = IF branch = "tick" THEN [cw EXCEPT !.ping = "write", !.pingTick = FALSE]
             ELSE [cw EXCEPT !.ping = "returned"]
    /\ UNCHANGED <<done, notCw>>

\* conn.WriteControl(websocket.PingMessage, nil, deadline)
CwPingWrite(ok) ==
    /\ cw.ping = "write"
    /\ cw.connClosed => ~ok
    /\ cw' = [cw EXCEPT !.ping = IF ok THEN "select" ELSE "returned"]
    /\ done' = IF ok THEN done ELSE DoClose(done, "ping error")
    /\ UNCHANGED notCw

\* runPingLoop returned: ConnectWebSocket returns, its deferred ticker.Stop()
\* and conn.Close() run
CwReturn ==
    /\ cw.main = "running"
    /\ cw.ping = "returned"
    /\ cw' = [cw EXCEPT !.main = "returned", !.connClosed = TRUE, !.pingTick = FALSE]
    /\ UNCHANGED <<done, notCw>>

\* conn.ReadJSON(&msg) in the reader: a message, or an error
CwRead(ok, type) ==
    /\ cw.rd = "read"
    /\ ok => (~cw.connClosed /\ cw.nmsgs < MaxWsMsgs)
    /\ cw' = IF ok THEN [cw EXCEPT !.rd = "handle", !.msg = type, !.nmsgs = @ + 1]
             ELSE [cw EXCEPT !.rd = "returned"]
    /\ done' = IF ok THEN done ELSE DoClose(done, "read error")
    /\ UNCHANGED notCw

\* what handleControlMessage returns: whether the reader stops
StopsReader(type) == type = "tunnel_closed"

\* handleControlMessage(msg, ...) and the reader's test of what it returns;
\* "subscribed" offers a value to ackCh and to intervalCh without blocking
CwHandle ==
    /\ cw.rd = "handle"
    /\ cw' = [cw EXCEPT !.rd = IF StopsReader(cw.msg) THEN "returned" ELSE "read",
                        !.ack = @ \/ (cw.msg = "subscribed"),
                        !.interval = @ \/ (cw.msg = "subscribed")]
    /\ done' = IF cw.msg = "tunnel_closed" THEN DoClose(done, "tunnel_closed") ELSE done
    /\ UNCHANGED notCw

\* the select of the fallback watcher
CwPollSelect(branch) ==
    /\ cw.fb = "select"
    /\ \/ branch = "tick" /\ cw.fbTick
       \/ branch = "interval" /\ cw.interval
       \/ branch = "done" /\ done.closed
    /\ cw' = CASE branch = "tick" -> [cw EXCEPT !.fb = "check", !.fbTick = FALSE]
               [] branch = "interval" -> [cw EXCEPT !.interval = FALSE, !.fbTick = FALSE]
               [] OTHER -> [cw EXCEPT !.fb = "returned", !.fbTick = FALSE]
    /\ UNCHANGED <<done, notCw>>

\* checkTunnelDeleted(client, serverURL, tunnelID)
CwPoll(deleted) ==
    /\ cw.fb = "check"
    /\ cw' = [cw EXCEPT !.fb = IF deleted THEN "returned" ELSE "select",
                        !.fbTick = IF deleted THEN FALSE ELSE @]
    /\ done' = IF deleted THEN DoClose(done, "poll") ELSE done
    /\ UNCHANGED notCw

\* warnOnMissingAck: the acknowledgement, or five seconds
CwWarn(branch) ==
    /\ cw.warn = "waiting"
    /\ branch = "ack" => cw.ack
    /\ cw' = [cw EXCEPT !.warn = "returned", !.ack = IF branch = "ack" THEN FALSE ELSE @]
    /\ UNCHANGED <<done, notCw>>

RestIdle ==
    /\ PingInit /\ BrInit /\ WsInit /\ QuicInit /\ SecIdle /\ PfIdle /\ SrvIdle /\ DrvIdle
    /\ FwInit /\ HdIdle /\ ParIdle /\ TrIdle /\ WbInit /\ WcInit /\ InIdle /\ SiInit /\ CwIdle

RestIdleButSrv ==
    /\ PingInit /\ BrInit /\ WsInit /\ QuicInit /\ SecIdle /\ PfIdle /\ DrvIdle
    /\ FwInit /\ HdIdle /\ ParIdle /\ TrIdle /\ WbInit /\ WcInit /\ InIdle /\ SiInit /\ CwIdle

(***************************************************************************)
(* Specifications                                                          *)
(***************************************************************************)
Init == MgrInit /\ AeadIdle /\ UdpInit /\ RestIdle

Next ==
    \/ \E p \in Procs : CallEnsure(p)
    \/ \E p \in Procs : CallClose(p)
    \/ \E p \in Procs : EnsureEnter(p)
    \/ \E p \in Procs : \E dialed, inited \in BOOLEAN : EnsureLoop(p, dialed, inited)
    \/ \E p \in Procs : EnsureSleep(p)
    \/ \E p \in Procs : CloseRun(p)
    \/ \E s \in 1..MaxConns : SessionFail(s)

Spec == Init /\ [][Next]_vars

\* goroutines inside EnsureSession or Close keep running; nobody is obliged to call
LiveSpec == Spec /\ \A p \in Procs : WF_vars(MgrStep(p))

\* many streams of one run, each wrapped by WrapClientStream and written to
NextWrap ==
    \/ \E w \in Streams : WrapClientStream(w)
    \/ \E w \in Streams : \E p \in Plaintexts : \E failAt \in 0..2 : AeadWrite(w, p, failAt)

InitAEAD == MgrIdle /\ AeadInit /\ UdpInit /\ RestIdle

SpecWrap == InitAEAD /\ [][NextWrap]_vars

\* one stream, written at one end and read at the other
NextAEAD ==
    \/ WrapClientStream(1)
    \/ \E p \in Plaintexts : \E failAt \in 0..2 : AeadWrite(1, p, failAt)
    \/ EndStream(1)
    \/ \E secret \in PSKs : \E tid \in TunnelIDs : WrapPeer(1, secret, tid)
    \/ \E size \in BufSizes : AeadRead(1, size)

SpecAEAD == InitAEAD /\ [][NextAEAD]_vars

\* one stream written at one end and read at the other, across a transport
\* that meddles once
NextTransit ==
    \/ WrapClientStream(1)
    \/ \E p \in Plaintexts : AeadWrite(1, p, 0)
    \/ \E secret \in PSKs : \E tid \in TunnelIDs : WrapPeer(1, secret, tid)
    \/ AeadRead(1, MaxPtLen)
    \/ \E f \in 1..MaxWrites : \E field \in Fields : AlterInTransit(1, f, field)
    \/ \E f \in 1..MaxWrites : ReplayInTransit(1, f)
    \/ SwapInTransit(1)

SpecTransit == InitAEAD /\ [][NextTransit]_vars

\* UDP packets written to and read from one encrypted stream; the reader is
\* made with the writer's PSK and tunnel id
NextSealedUDP ==
    \/ WrapClientStream(1)
    \/ WrapPeer(1, encPSK, tunnelID)
    \/ \E payload \in SealedPayloads : \E failAt \in 0..2 : UdpSealedWrite(1, payload, failAt)
    \/ UdpSealedRead(1)

SpecSealedUDP == InitAEAD /\ [][NextSealedUDP]_vars

NextUDP ==
    \/ \E payload \in UdpPayloads : \E failAt \in 0..2 : UdpWrite(payload, failAt)
    \/ UdpEnd
    \/ \E k \in 0..3 : UdpCut(k)
    \/ UdpRead

InitUDP == MgrIdle /\ AeadIdle /\ UdpInit /\ RestIdle

SpecUDP == InitUDP /\ [][NextUDP]_vars

\* the manager with the ping goroutines of its connections
NextPing ==
    \/ Next
    \/ \E c \in Conns : PingCheckNil(c)
    \/ \E c \in Conns : \E s \in {NoSess} \cup Conns : PingIsClosed(c, s)

SpecPing == Init /\ [][NextPing]_vars

\* a ping goroutine that has not returned keeps running, and so do the
\* goroutines inside EnsureSession or Close
PingStep(c) == PingCheckNil(c) \/ \E s \in {NoSess} \cup Conns : PingIsClosed(c, s)

LivePing ==
    /\ SpecPing
    /\ \A p \in Procs : WF_vars(MgrStep(p))
    /\ \A c \in Conns : WF_vars(PingStep(c))

\* one PipeStreams call
NextBridge == \E d \in Directions : \E err \in CopyErrors : CopyEnds(d, err)

InitBridge == MgrIdle /\ AeadIdle /\ UdpInit /\ RestIdle

SpecBridge == InitBridge /\ [][NextBridge]_vars

\* one WSConn, read and written while the peer sends and the connection ends
NextWS ==
    \/ \E size \in ReadSizes : WsRead(size)
    \/ \E size \in WriteSizes : WsWrite(size)
    \/ \E mt \in {"binary", "text"} : \E len \in MsgSizes : WsArrive(mt, len)
    \/ \E how \in {"closed", "failed"} : WsEnds(how)

InitWS == MgrIdle /\ AeadIdle /\ UdpInit /\ RestIdle

SpecWS == InitWS /\ [][NextWS]_vars

\* the adapter read while messages arrive, with the bytes told apart
NextWSBytes ==
    \/ \E size \in {0, 1, MaxWebSocketFrameSize} : WsReadLogged(size)
    \/ \E mt \in {"binary", "text"} : \E len \in MsgSizes : WsArriveLogged(mt, len)
    \/ \E how \in {"closed", "failed"} : WsEnds(how)

SpecWSBytes == InitWS /\ [][NextWSBytes]_vars

\* the adapter in use, and closed once
NextWSClose ==
    \/ NextWS
    \/ \E frame \in {"sent", "ErrCloseSent", "write error"} :
           \E closeErr \in {"nil", "close error"} : WsClose(frame, closeErr)

SpecWSClose == InitWS /\ [][NextWSClose]_vars

\* readStreamDestination on one stream
NextReadDst == ReadDestination

InitReadDst ==
    /\ MgrIdle /\ AeadIdle /\ UdpInit /\ RestIdleButSrv
    /\ inTokens \in TokensUpTo(MaxTokens) \cup ServedStreams
    /\ srv = NoServe

SpecReadDst == InitReadDst /\ [][NextReadDst]_vars

\* one inbound stream served as its bytes arrive
NextInbound ==
    \/ \E n \in 1..Len(StreamBytes(inTokens)) : InFill(n)
    \/ InEnds
    \/ \E ok \in BOOLEAN : InDial(ok)
    \/ \E ok \in BOOLEAN : InDrain(ok)
    \/ \E n \in 1..Len(StreamBytes(inTokens)) : \E ok \in BOOLEAN : InCopy(n, ok)
    \/ \E how \in {"EOF", "read error"} : InCopyEnds(how)

InitInbound ==
    /\ MgrIdle /\ AeadIdle /\ UdpInit /\ RestIdleButSrv
    /\ inTokens \in ServedStreams \cup TokensUpTo(MaxTokens - 2)
    /\ srv = NoServe

SpecInbound == InitInbound /\ [][NextInbound]_vars

\* one inbound stream served whose first line starts with PrefaceCap spaces
NextLongPreface == \E dialOK \in BOOLEAN : serveIncomingStream(dialOK)

InitLongPreface ==
    /\ MgrIdle /\ AeadIdle /\ UdpInit /\ RestIdleButSrv
    /\ inTokens \in LongStreams
    /\ srv = NoServe

SpecLongPreface == InitLongPreface /\ [][NextLongPreface]_vars

\* serve_incoming: the driver, its manager, the sessions failing and the
\* goroutines of the streams it accepted
NextIncoming ==
    \/ SiCallEnsure
    \/ SiMgrStep
    \/ SiAfterEnsure
    \/ \E ok \in BOOLEAN : SiAccept(ok)
    \/ SiSleep
    \/ \E failed \in BOOLEAN : SiStreamEnds(failed)
    \/ SiCallClose
    \/ SiReturn
    \/ \E s \in 1..MaxConns : SessionFail(s)

\* the backoff settings StartDataPlaneServeIncoming gives to NewManager are
\* fixed (a second, thirty seconds): the least and the largest duration here
InitIncoming == Init /\ boInit = 1 /\ boMax = MaxDuration

SpecIncoming == InitIncoming /\ [][NextIncoming]_vars

\* one ConnectWebSocket call after its dial succeeded
NextWatch ==
    \/ \E which \in {"ping", "poll"} : CwTick(which)
    \/ \E branch \in {"tick", "done"} : CwPingSelect(branch)
    \/ \E ok \in BOOLEAN : CwPingWrite(ok)
    \/ CwReturn
    \/ \E ok \in BOOLEAN : \E type \in MsgTypes : CwRead(ok, type)
    \/ CwHandle
    \/ \E branch \in {"tick", "interval", "done"} : CwPollSelect(branch)
    \/ \E deleted \in BOOLEAN : CwPoll(deleted)
    \/ \E branch \in {"ack", "timeout"} : CwWarn(branch)

InitWatch == MgrIdle /\ AeadIdle /\ UdpInit /\ RestIdle

SpecWatch == InitWatch /\ [][NextWatch]_vars

\* every goroutine goes on: a write of a ping and a poll of the server end
\* (both have deadlines), and a select that finds done closed time and again
\* takes that case at last, as it chooses among the ready cases at random
LiveWatch ==
    /\ SpecWatch
    /\ WF_vars(\E ok \in BOOLEAN : CwPingWrite(ok))
    /\ WF_vars(\E deleted \in BOOLEAN : CwPoll(deleted))
    /\ WF_vars(CwReturn)
    /\ SF_vars(CwPingSelect("done"))
    /\ SF_vars(CwPollSelect("done"))

\* the two loops of one StartQUICDataPlaneUDP call
NextQUIC ==
    \/ \E f \in Flows : SndReadFromUDP(f)
    \/ SndInsertBegins
    \/ SndInsertEnds
    \/ SndSendDatagram
    \/ \E f \in Flows : \E good \in BOOLEAN : RcvReceiveDatagram(f, good)
    \/ RcvLookupBegins
    \/ \E out \in {"found", "absent", "fatal"} : RcvLookupEnds(out)

InitQUIC == MgrIdle /\ AeadIdle /\ UdpInit /\ RestIdle

SpecQUIC == InitQUIC /\ [][NextQUIC]_vars

\* one secret, every combination of its sources
NextSecrets == applySecretSource

InitSecrets ==
    /\ MgrIdle /\ AeadIdle /\ UdpInit /\ PingInit /\ BrInit /\ WsInit /\ QuicInit
    /\ SecInit /\ PfIdle /\ SrvIdle /\ DrvIdle /\ FwInit /\ HdIdle /\ ParIdle /\ TrIdle /\ WbInit /\ WcInit /\ InIdle /\ SiInit /\ CwIdle

SpecSecrets == InitSecrets /\ [][NextSecrets]_vars

\* one preface, encoded and read back
NextPreface == PrefaceRoundTrip

InitPreface ==
    /\ MgrIdle /\ AeadIdle /\ UdpInit /\ PingInit /\ BrInit /\ WsInit /\ QuicInit
    /\ SecIdle /\ PfInit /\ SrvIdle /\ DrvIdle /\ FwInit /\ HdIdle /\ ParIdle /\ TrIdle /\ WbInit /\ WcInit /\ InIdle /\ SiInit /\ CwIdle

SpecPreface == InitPreface /\ [][NextPreface]_vars

\* one inbound stream, served
NextServe == \E dialOK \in BOOLEAN : serveIncomingStream(dialOK)

InitServe ==
    /\ MgrIdle /\ AeadIdle /\ UdpInit /\ PingInit /\ BrInit /\ WsInit /\ QuicInit
    /\ SecIdle /\ PfIdle /\ SrvInit /\ DrvIdle /\ FwInit /\ HdIdle /\ ParIdle /\ TrIdle /\ WbInit /\ WcInit /\ InIdle /\ SiInit /\ CwIdle

SpecServe == InitServe /\ [][NextServe]_vars

\* one driver and the streams it opens
NextDrivers ==
    \/ \E s \in Streams : OpenStream(s)
    \/ \E s \in Streams : \E ok \in BOOLEAN : WritePreface(s, ok)
    \/ \E s \in Streams : StartCopying(s)
    \/ \E s \in Streams : \E ok \in BOOLEAN : WritePayload(s, ok)
    \/ \E s \in Streams : CloseStream(s)

InitDrivers ==
    /\ MgrIdle /\ AeadIdle /\ UdpInit /\ PingInit /\ BrInit /\ WsInit /\ QuicInit
    /\ SecIdle /\ PfIdle /\ SrvIdle /\ DrvInit /\ FwInit /\ HdIdle /\ ParIdle /\ TrIdle /\ WbInit /\ WcInit /\ InIdle /\ SiInit /\ CwIdle

SpecDrivers == InitDrivers /\ [][NextDrivers]_vars

\* one forwarder run
NextForwarder == LocalStep \/ StreamStep \/ ForwarderReturn

InitForwarder == MgrIdle /\ AeadIdle /\ UdpInit /\ RestIdle

SpecForwarder == InitForwarder /\ [][NextForwarder]_vars

\* a call on a closed socket or stream returns, a send on a channel with room
\* goes through, and the driver takes what errCh holds; before the closes a
\* loop may wait for a packet for ever
LiveForwarder ==
    /\ SpecForwarder
    /\ WF_vars(fwMain.closed /\ LocalStep)
    /\ WF_vars(fwMain.closed /\ StreamStep)
    /\ WF_vars(ForwarderReturn)

\* one bridged connection
NextHandler ==
    \/ MainStep
    \/ \E d \in Directions : CopyReturns(d) \/ DoneSend(d)
    \/ \E e \in Ends : PeerCloses(e)

InitHandler ==
    /\ MgrIdle /\ AeadIdle /\ UdpInit /\ PingInit /\ BrInit /\ WsInit /\ QuicInit
    /\ SecIdle /\ PfIdle /\ SrvIdle /\ DrvIdle /\ FwInit /\ HdInit /\ ParIdle /\ TrIdle /\ WbInit /\ WcInit /\ InIdle /\ SiInit /\ CwIdle

SpecHandler == InitHandler /\ [][NextHandler]_vars

\* every goroutine that can take a step takes one; a Read returns once its
\* endpoint is at end-of-stream or closed, while a peer need never close and
\* need never send the bytes whose Write would fail
MainReady == hdMain \in {"drain", "copy"} => ReadEnds("b")

LiveHandler ==
    /\ SpecHandler
    /\ WF_vars(MainReady /\ MainStep)
    /\ \A d \in Directions : WF_vars(SrcEnded(d) /\ CopyReturns(d))
    /\ \A d \in Directions : WF_vars(DoneSend(d))

\* one parallel echo run
NextParallel == (\E i \in Tasks : TaskStep(i)) \/ ParReturn

InitParallel ==
    /\ MgrIdle /\ AeadIdle /\ UdpInit /\ PingInit /\ BrInit /\ WsInit /\ QuicInit
    /\ SecIdle /\ PfIdle /\ SrvIdle /\ DrvIdle /\ FwInit /\ HdIdle /\ ParInit /\ TrIdle /\ WbInit /\ WcInit /\ InIdle /\ SiInit /\ CwIdle

SpecParallel == InitParallel /\ [][NextParallel]_vars

(***************************************************************************)
(* Properties of the session manager                                       *)
(***************************************************************************)
InRetry(p) == pc[p] \in {"loop", "sleep"}
Live == created \ closedSess
ClosePending == \E c \in Procs : pc[c] = "close"

\* C1: once a Close has returned, every EnsureSession call made from then on
\* returns "stopped" and never reaches the dial loop; every session the
\* manager ever made is closed and none is held.
StoppedIsTerminal ==
    /\ \A p \in Procs : res[p].sinceClose => res[p].kind = "stopped" /\ res[p].s = NoSess
    /\ \A p \in Procs : callInfo[p].sinceClose => ~InRetry(p)
    /\ closeReturned => stopped /\ sess = NoSess /\ Live = {}

\* a call made after Close, on a manager that had a session, has returned "stopped"
StoppedIsTerminalCase ==
    \E p \in Procs : res[p].sinceClose /\ res[p].kind = "stopped" /\ created # {}

\* C2: at most one session of the manager is not closed, and it is the one
\* held; a goroutine is in the dial loop only while no live session is held;
\* the sessions handed to callers that are still open are one and the same.
OneLiveSession ==
    /\ Cardinality(Live) <= 1
    /\ Live \subseteq {sess}
    /\ \A p \in Procs : InRetry(p) => (sess = NoSess \/ sess \in closedSess)
    /\ \A p, q \in Procs :
          (res[p].kind = "session" /\ res[q].kind = "session"
             /\ res[p].s \notin closedSess /\ res[q].s \notin closedSess)
          => res[p].s = res[q].s /\ res[p].s = sess

\* after a lost session and a redial, two callers hold the same live session
OneLiveSessionCase ==
    /\ Cardinality(created) >= 2
    /\ \E p, q \in Procs :
          /\ p # q
          /\ res[p].kind = "session" /\ res[q].kind = "session"
          /\ res[p].s = res[q].s /\ res[p].s \in Live

NoStopInsideRetry == \A p \in Procs : InRetry(p) => ~stopped /\ mu = p

\* C5 (as claimed): every call of Close returns.
CloseReturns == \A c \in Procs : (pc[c] = "close") ~> (pc[c] = "idle")

\* C6 (as claimed): the first sleep of a call is boInit and each later one is
\* min(2 x the previous sleep, boMax).  backoff[p] is the next sleep.
BackoffLaw ==
    \A p \in Procs :
        InRetry(p) =>
            backoff[p] = IF callInfo[p].nsleeps = 0 THEN boInit
                         ELSE Min(2 * callInfo[p].slept, boMax)

\* the law where doubling stays inside the Duration range
BackoffLawInRange ==
    \A p \in Procs :
        (InRetry(p) /\ callInfo[p].slept >= 0 /\ 2 * callInfo[p].slept <= MaxDuration) =>
            backoff[p] = IF callInfo[p].nsleeps = 0 THEN boInit
                         ELSE Min(2 * callInfo[p].slept, boMax)

\* C7: a call that redials after the manager had a session starts its
\* backoff at boInit: its first sleep is boInit.
BackoffResetOnRedial ==
    \A p \in Procs :
        (callInfo[p].redial /\ InRetry(p)) =>
            /\ callInfo[p].nsleeps = 0 => backoff[p] = boInit
            /\ callInfo[p].nsleeps = 1 => callInfo[p].slept = boInit

\* the lost session was made after two or more sleeps, and the redial has
\* slept once
BackoffResetOnRedialCase ==
    \E p \in Procs :
        /\ callInfo[p].redial /\ pc[p] = "loop" /\ callInfo[p].nsleeps = 1
        /\ sessSleeps >= 2 /\ boInit < boMax

\* C16: every Close that returns leaves stopped set and no session or
\* connection held, with the session and connection it found closed; a Close
\* on a manager already stopped changes nothing of the manager.
CloseIdempotent ==
    [][\A p \in Procs :
          (pc[p] = "close" /\ pc'[p] = "idle") =>
              /\ stopped' /\ sess' = NoSess /\ conn' = NoConn
              /\ (sess # NoSess) => sess \in closedSess'
              /\ (conn # NoConn) => conn \in closedConn'
              /\ stopped => /\ <<sess, conn, closedSess, closedConn>>'
                                = <<sess, conn, closedSess, closedConn>>
                            /\ res'[p].kind = "closed"]_vars

\* two goroutines have each returned from Close on a manager that had a session
CloseIdempotentCase ==
    \E p, q \in Procs :
        /\ p # q
        /\ res[p].kind = "closed" /\ res[q].kind = "closed"
        /\ created # {} /\ stopped /\ sess = NoSess

\* C18 (as claimed): no goroutine reads or writes sess, conn or stopped
\* without holding m.mu: the calls inside EnsureSession hold it, and no ping
\* goroutine has read m.sess without it.
LockedAccess ==
    /\ \A p \in Procs : InRetry(p) => mu = p
    /\ pingRead = "none"

\* what EnsureSession does from its entry when the held session is not alive
\* and the manager is not stopped: it goes to dial
EntersDialing(p) == pc'[p] = "loop" /\ res'[p].kind = "none"

\* what the claim says of a call in every other respect: a live held session
\* is returned as it is and nothing is dialed; a call that leaves the retry
\* loop of a manager that is not stopped returns the session it has just
\* made, which is the manager's and is not closed
EnsureOtherwise(p) ==
    /\ (pc[p] = "ensure" /\ pc'[p] # "ensure" /\ ~stopped
            /\ sess # NoSess /\ sess \notin closedSess)
        => /\ pc'[p] = "idle" /\ res'[p].kind = "session" /\ res'[p].s = sess
           /\ nconns' = nconns /\ sess' = sess
    /\ (pc[p] \in {"loop", "sleep"} /\ pc'[p] = "idle" /\ ~stopped)
        => /\ res'[p].kind = "session"
           /\ res'[p].s \notin created /\ res'[p].s = sess'
           /\ res'[p].s \notin closedSess'
    /\ (pc[p] # "idle" /\ pc'[p] = "idle" /\ res'[p].kind = "session")
        => res'[p].s \notin closedSess

\* C27 (as claimed): when the manager is not stopped, EnsureSession returns
\* the held session without dialing if that session is not closed, and
\* otherwise dials until it has a new session and returns that one; it never
\* returns a session it saw closed, and after a transport failure the next
\* call goes to dial again.
EnsureDialsUnlessAlive ==
    [][\A p \in Procs :
          /\ EnsureOtherwise(p)
          /\ (pc[p] = "ensure" /\ pc'[p] # "ensure" /\ ~stopped
                  /\ ~(sess # NoSess /\ sess \notin closedSess))
              => EntersDialing(p)]_vars

\* C27 (amended): the same, for a manager whose server URL gives a websocket
\* URL; with any other server URL a call that finds no live session returns
\* the error "invalid websocket url" and dials nothing.
EnsureDialsUnlessAlive_ValidURL ==
    [][\A p \in Procs :
          /\ EnsureOtherwise(p)
          /\ (pc[p] = "ensure" /\ pc'[p] # "ensure" /\ ~stopped
                  /\ ~(sess # NoSess /\ sess \notin closedSess))
              => IF urlValid THEN EntersDialing(p)
                 ELSE /\ pc'[p] = "idle" /\ res'[p].kind = "invalid websocket url"
                      /\ nconns' = nconns /\ sess' = sess]_vars

\* session 1 failed, and a later call dialed again and returned session 2
EnsureRedialsCase ==
    \E p \in Procs :
        /\ res[p].kind = "session" /\ res[p].s = 2
        /\ 1 \in closedSess /\ sess = 2 /\ 2 \notin closedSess /\ ~stopped

\* C23 (as claimed): the ping goroutine started for a session eventually
\* exits once that session is closed or the manager is stopped, also when
\* EnsureSession has already put a new live session in its place.
PingExits ==
    \A c \in Conns :
        (c \in created /\ (c \in closedSess \/ stopped)) ~> (ping[c].at \in {"done", "panic"})

(***************************************************************************)
(* Properties of the stream encryption                                     *)
(***************************************************************************)
\* the Seal calls of stream w among the first n
SealsOf(w, n) == {j \in 1..n : seals[j].w = w}

\* C3 (as claimed): no two Seal calls use the same key with the same nonce,
\* over all the streams WrapClientStream wrapped in the run.
NonceNeverReused ==
    \A i, j \in 1..Len(seals) :
        (i # j /\ seals[i].key = seals[j].key) => seals[i].nonce # seals[j].nonce

\* C8: when the reader holds the writer's key and every Write so far was
\* taken by the base stream, the i-th Read, given a buffer that holds the
\* i-th plaintext, returns exactly that plaintext and no error.
RoundTrip ==
    \A w \in Streams :
        (peer[w].made /\ peer[w].key = aead[w].key) =>
            \A i \in 1..Len(got[w]) :
                (/\ i <= Len(sent[w])
                 /\ \A j \in 1..i : sent[w][j].ok
                 /\ got[w][i].size >= Len(sent[w][i].pt))
                => /\ got[w][i].err = "nil"
                   /\ got[w][i].data = sent[w][i].pt
                   /\ got[w][i].n = Len(sent[w][i].pt)

\* two different plaintexts were written and read back in order
RoundTripCase ==
    \E w \in Streams :
        /\ peer[w].made /\ peer[w].key = aead[w].key
        /\ Len(got[w]) >= 2 /\ Len(sent[w]) >= 2
        /\ got[w][1].err = "nil" /\ got[w][2].err = "nil"
        /\ got[w][1].data = sent[w][1].pt /\ got[w][2].data = sent[w][2].pt
        /\ got[w][1].data # got[w][2].data

\* C9: a wrapper's counter is the number of Write calls made on it, failed
\* ones included; its k-th Write seals under 16 zero bytes followed by k-1
\* in 8 bytes, most significant first; no nonce repeats within the wrapper.
CounterCountsWrites ==
    \A w \in Streams :
        /\ aead[w].encCtr = Len(sent[w])
        /\ Cardinality(SealsOf(w, Len(seals))) = Len(sent[w])
        /\ \A n \in SealsOf(w, Len(seals)) :
              LET k == Cardinality(SealsOf(w, n))
                  nonce == seals[n].nonce
              IN  /\ Len(nonce) = NonceSize
                  /\ \A i \in 1..16 : nonce[i] = 0
                  /\ \A i \in 17..24 : nonce[i] \in 0..255
                  /\ BigEndian(SubSeq(nonce, 17, 24)) = k - 1
        /\ \A m, n \in SealsOf(w, Len(seals)) : m # n => seals[m].nonce # seals[n].nonce

\* a wrapper whose first Write failed on the base stream has been written to again
CounterCountsWritesCase ==
    \E w \in Streams :
        /\ Len(sent[w]) >= 2 /\ ~sent[w][1].ok
        /\ aead[w].encCtr = 2
        /\ seals[Len(seals)].nonce[NonceSize] = 1

\* C30: when the reader holds the writer's key and every Write so far was
\* taken by the base stream, a Read whose buffer is shorter than the plaintext
\* of its frame returns the first len(buffer) bytes of that plaintext with the
\* short-buffer error; the rest is never delivered: the next Read returns the
\* plaintext of the following frame from its first byte.
ShortBufferDiscardsTail ==
    \A w \in Streams :
        (peer[w].made /\ peer[w].key = aead[w].key) =>
            \A i \in 1..Len(got[w]) :
                (/\ i <= Len(sent[w])
                 /\ \A j \in 1..i : sent[w][j].ok
                 /\ got[w][i].size < Len(sent[w][i].pt))
                => /\ got[w][i].err = "short buffer"
                   /\ got[w][i].n = got[w][i].size
                   /\ got[w][i].data = SubSeq(sent[w][i].pt, 1, got[w][i].size)
                   /\ (i < Len(got[w]) /\ i < Len(sent[w]) /\ sent[w][i + 1].ok) =>
                          /\ got[w][i + 1].err \in {"nil", "short buffer"}
                          /\ got[w][i + 1].data =
                                 SubSeq(sent[w][i + 1].pt, 1, got[w][i + 1].n)
                          /\ got[w][i + 1].n =
                                 Min(got[w][i + 1].size, Len(sent[w][i + 1].pt))

\* a Read into a one-byte buffer cut a two-byte plaintext, and the next Read
\* gave the one byte of the following frame
ShortBufferCase ==
    \E w \in Streams :
        /\ Len(got[w]) >= 2 /\ Len(sent[w]) >= 2
        /\ Len(sent[w][1].pt) = 2 /\ Len(sent[w][2].pt) = 1
        /\ got[w][1].err = "short buffer" /\ got[w][1].n = 1
        /\ got[w][1].data = SubSeq(sent[w][1].pt, 1, 1)
        /\ got[w][2].err = "nil" /\ got[w][2].data = sent[w][2].pt

\* C17 (as claimed): a stream comes back wrapped exactly when encryption is
\* enabled and the PSK is not empty.
WrapsOnlyWithPSK ==
    \A w \in Streams :
        aead[w].made => (aead[w].wrapped <=> (encEnabled /\ encPSK # <<>>))

\* C17 (amended): a stream comes back wrapped exactly when encryption is
\* enabled, whatever the PSK, under the key of that PSK and the tunnel id and
\* with its counter at zero before the first Write; otherwise the same stream
\* comes back.
WrapsWhenEnabled ==
    \A w \in Streams :
        aead[w].made =>
            /\ aead[w].wrapped <=> encEnabled
            /\ aead[w].wrapped => aead[w].key = DeriveKey(encPSK, tunnelID)
            /\ (aead[w].wrapped /\ sent[w] = <<>>) => aead[w].encCtr = 0
            /\ ~aead[w].wrapped => aead[w] = [NoAead EXCEPT !.made = TRUE]

\* encryption enabled with an empty PSK: one stream came back wrapped
WrapsWhenEnabledCase ==
    /\ encEnabled /\ encPSK = <<>>
    /\ \E w \in Streams : aead[w].made /\ aead[w].wrapped

(***************************************************************************)
(* Properties of the stream bridge                                         *)
(***************************************************************************)
\* the benign close errors: end-of-file, unexpected end-of-file, closed
\* network connection, broken pipe, connection reset, closed pipe, "stream
\* closed", "use of closed network connection"
BenignClose(err) ==
    \/ err.is \in {"io.EOF", "io.ErrUnexpectedEOF", "net.ErrClosed", "io.ErrClosedPipe"}
    \/ Contains(err.msg, <<"EOF">>)
    \/ Contains(err.msg, <<"closed", "network", "connection">>)
    \/ Contains(err.msg, <<"broken", "pipe">>)
    \/ Contains(err.msg, <<"connection", "reset">>)
    \/ Contains(err.msg, <<"closed", "pipe">>)
    \/ Contains(err.msg, <<"stream", "closed">>)

\* C14 (as claimed): a copy direction that ended with a benign close error
\* wrote no log line, and one that ended with another error wrote one.
BenignNotLogged ==
    \A d \in Directions :
        (brEnded[d] # Running /\ brEnded[d] # ErrNil) =>
            (d \in brLogged <=> ~BenignClose(brEnded[d]))

(***************************************************************************)
(* Properties of the WebSocket adapter                                     *)
(***************************************************************************)
\* C13: a Read with a buffer of more than 65536 bytes and a Write of more
\* than 1048576 bytes return an error and 0 bytes, make no call on the
\* connection and leave the current reader, the messages waiting and the
\* messages written as they were.
WsSizeCaps ==
    [][(wsRes'.seq # wsRes.seq /\
          \/ wsRes'.op = "Read" /\ wsRes'.size > 65536
          \/ wsRes'.op = "Write" /\ wsRes'.size > 1048576)
        => /\ wsRes'.err # "nil" /\ wsRes'.n = 0 /\ wsRes'.ops = 0
           /\ wsCur' = wsCur /\ wsIn' = wsIn /\ wsOut' = wsOut]_vars

\* a Read with a buffer of 65537 bytes was refused in the middle of a
\* message, with another message waiting
WsSizeCapsCase ==
    /\ wsRes.op = "Read" /\ wsRes.size = 65537 /\ wsRes.err # "nil"
    /\ wsCur.set /\ wsCur.left > 0
    /\ wsIn # <<>>

(***************************************************************************)
(* Properties of the QUIC datagram mode                                    *)
(***************************************************************************)
\* C19: the sender's insert into flowMap and the receiver's lookup in it
\* never run at the same time.
FlowMapSerialized == ~(qSnd.at = "inserting" /\ qRcv.at = "looking")

(***************************************************************************)
(* Properties of the secret sources                                        *)
(***************************************************************************)
\* the source of highest precedence that is supplied: environment, file,
\* standard input, command-line flag, from lowest to highest
HighestSupplied(source) ==
    IF source.value # <<>> THEN "flag"
    ELSE IF source.stdin.on THEN "stdin"
    ELSE IF source.file.path THEN "file"
    ELSE IF TrimSpace(source.env) # <<>> THEN "env"
    ELSE "none"

\* C20: the value used for a secret comes from the source of highest
\* precedence that is supplied (environment, file, standard input, flag, from
\* lowest to highest): a secret given by file and by standard input has the
\* value read from standard input.
SecretPrecedence ==
    (secOut.done /\ secOut.err = "nil") =>
        secOut.value =
            CASE HighestSupplied(secIn) = "flag" -> secIn.value
              [] HighestSupplied(secIn) = "stdin" -> TrimSpace(secIn.stdin.data)
              [] HighestSupplied(secIn) = "file" -> TrimSpace(secIn.file.data)
              [] HighestSupplied(secIn) = "env" -> TrimSpace(secIn.env)
              [] OTHER -> <<>>

(***************************************************************************)
(* Properties of the stream preface                                        *)
(***************************************************************************)
\* M["dst"], the empty string when M has no such key
WantDst(M) == IF ~M.nil /\ KeyDst \in DOMAIN M.kv THEN M.kv[KeyDst] ELSE <<>>

\* the text is valid UTF-8
RECURSIVE ValidUTF8(_, _)
ValidRune(t, i, r) == ~(r.rune = RuneError /\ r.size = 1) /\ ValidUTF8(t, i + r.size)
ValidUTF8(t, i) == i > Len(t) \/ ValidRune(t, i, DecodeRune(t, i))

\* one line, ended by the only newline in it
SingleLine(line) ==
    /\ line # <<>>
    /\ line[Len(line)] = 10
    /\ \A i \in 1..(Len(line) - 1) : line[i] # 10

\* C11 as stated: for every map M of string fields, readStreamDestination
\* applied to encodePreface(M) returns M["dst"] with no error (the empty
\* string when M has no "dst"), and encodePreface(M) is a single line ended by
\* exactly one newline.
PrefaceRoundTripAll ==
    pfOut.done =>
        /\ pfOut.err = "nil"
        /\ pfOut.dst = WantDst(pfMap)
        /\ SingleLine(pfOut.line)

\* C11, amended: for every map M of string fields encodePreface(M) is a single
\* line ended by exactly one newline and readStreamDestination reads it with
\* no error; it returns M["dst"] (the empty string when M has no "dst")
\* whenever M["dst"] is valid UTF-8.
PrefaceRoundTrip_UTF8 ==
    pfOut.done =>
        /\ pfOut.err = "nil"
        /\ SingleLine(pfOut.line)
        /\ ValidUTF8(WantDst(pfMap), 1) => pfOut.dst = WantDst(pfMap)

\* a "dst" holding a quote, a newline, a backslash pair's worth of escapes
\* and a two-byte character came back as it was
PrefaceRoundTripCase ==
    /\ pfOut.done
    /\ KeyProto \in DOMAIN pfMap.kv
    /\ WantDst(pfMap) = <<34, 195, 169>>
    /\ pfOut.dst = <<34, 195, 169>>

\* the tokens of the first non-blank line of a stream (spaces apart), and
\* whether its newline arrived
RECURSIVE FirstLine(_, _)
FirstLine(toks, cur) ==
    IF toks = <<>> THEN [whole |-> FALSE, toks |-> cur]
    ELSE IF Head(toks) = "nl"
       THEN IF cur = <<>> THEN FirstLine(Tail(toks), <<>>) ELSE [whole |-> TRUE, toks |-> cur]
    ELSE IF Head(toks) = "sp" THEN FirstLine(Tail(toks), cur)
    ELSE FirstLine(Tail(toks), Append(cur, Head(toks)))

\* what the first non-blank line is
LineClass ==
    LET l == FirstLine(inTokens, <<>>)
    IN  IF ~l.whole THEN "cut"
        ELSE IF l.toks = <<"dstkey", "str", "rbrace">> THEN "dst"
        ELSE IF l.toks = <<"dstkey", "empty", "rbrace">> THEN "empty dst"
        ELSE IF l.toks = <<"lbrace", "rbrace">> THEN "no dst"
        ELSE IF l.toks = <<"dstkey", "null", "rbrace">> THEN "null dst"
        ELSE IF l.toks = <<"null">> THEN "null"
        ELSE "invalid"

WatchOver == cw.main = "returned" /\ cw.ping = "returned" /\ cw.fb = "returned"

\* C37: close(done) runs once at most, however many of the tunnel_closed
\* message, the read error, the ping write error and the poll that reports
\* deletion call doneOnce.Do; handleControlMessage stops the reader for the
\* type tunnel_closed and for no other; and once done is closed
\* ConnectWebSocket returns and the ping loop and the fallback watcher end.
WatchShutdown ==
    /\ [](/\ done.closes <= 1
          /\ done.closed = (done.closes = 1)
          /\ done.closed = (done.doers # {}))
    /\ [][(cw.rd = "handle" /\ cw'.rd # "handle") =>
              (cw'.rd = "returned") = (cw.msg = "tunnel_closed")]_vars
    /\ (done.closed ~> WatchOver)

\* the reader met tunnel_closed while a ping was being written and a poll
\* was under way; the ping failed and the poll reported deletion: three
\* calls of doneOnce.Do, one close, and the watch has shut down
WatchShutdownCase ==
    /\ done.doers = {"tunnel_closed", "ping error", "poll"}
    /\ done.closes = 1
    /\ WatchOver

(***************************************************************************)
(* Properties of the accept loop                                           *)
(***************************************************************************)
\* C36: a failed AcceptStream never ends the driver: it sleeps
\* reconnectRetryDelay, calls EnsureSession again and accepts on the session
\* that call returns, which is not one it saw closed; the driver returns only
\* on an error of EnsureSession; and a stream goroutine that fails closes no
\* session, does not stop the manager and leaves the loop where it is.
AcceptRetries ==
    [][/\ (si.at = "accept" /\ si'.at # "accept") =>
              /\ si'.at \in {"call", "sleep"}
              /\ (si'.at = "call") = (si'.serving = si.serving + 1)
       /\ (si.at = "sleep" /\ si'.at # "sleep") =>
              /\ si'.at = "call" /\ si'.slept = reconnectRetryDelay
              /\ pc'[1] = "idle" /\ res'[1].kind = "none"
       /\ (si.at = "call" /\ si'.at # "call") =>
              /\ res[1].kind # "none"
              /\ (si'.at = "accept") = (res[1].kind = "session")
              /\ si'.at = "accept" => (si'.sess = res[1].s /\ si'.sess \notin si.dead)
              /\ si'.at # "accept" => (si'.at = "closing" /\ si'.err = res[1].kind)
       /\ si'.at \in {"closing", "returned"} =>
              si'.err \in {"stopped", "invalid websocket url"}
       /\ si'.failed # si.failed =>
              /\ closedSess' = closedSess /\ stopped' = stopped
              /\ sess' = sess
              /\ si'.at = si.at]_vars

\* AcceptStream failed on the closed session 1, the driver slept and its next
\* EnsureSession dialed session 2, on which it accepts; a stream goroutine
\* had failed before
AcceptRetriesCase ==
    /\ si.at = "accept" /\ si.sess = 2
    /\ si.dead = {1}
    /\ si.sleeps = 1 /\ si.slept = reconnectRetryDelay
    /\ si.failed = 1
    /\ ~stopped

(***************************************************************************)
(* Properties of an inbound stream                                         *)
(***************************************************************************)
\* the number of bytes up to and with the newline of the first non-blank
\* line, or 0 when the stream has no such line
RECURSIVE LineEnd(_, _, _)
LineEnd(toks, n, blank) ==
    IF toks = <<>> THEN 0
    ELSE IF Head(toks) = "nl"
       THEN IF blank THEN LineEnd(Tail(toks), n + 1, TRUE) ELSE n + 1
    ELSE LineEnd(Tail(toks), n + Len(TokenBytes[Head(toks)]), blank /\ Head(toks) = "sp")

\* the tokens after the first non-blank line
RECURSIVE AfterFirstLine(_, _)
AfterFirstLine(toks, blank) ==
    IF toks = <<>> THEN <<>>
    ELSE IF Head(toks) = "nl"
       THEN IF blank THEN AfterFirstLine(Tail(toks), TRUE) ELSE Tail(toks)
    ELSE AfterFirstLine(Tail(toks), blank /\ Head(toks) = "sp")

RECURSIVE LineSize(_, _, _)
LineSize(toks, n, blank) ==
    IF toks = <<>> THEN n
    ELSE IF Head(toks) = "nl"
       THEN IF blank THEN LineSize(Tail(toks), 0, TRUE) ELSE n + 1
    ELSE LineSize(Tail(toks), n + Len(AllTokenBytes[Head(toks)]),
                  blank /\ Head(toks) \in {"sp", "pad"})

\* C35 (as claimed): a stream whose preface line is longer than 64 KiB is
\* rejected: serveIncomingStream returns an error and has closed the stream
\* without dialing.
OversizedRejected ==
    (srv.done /\ LineSize(inTokens, 0, TRUE) > PrefaceCap) =>
        /\ srv.err # "nil"
        /\ srv.closed /\ ~srv.dialed

\* the payload of the stream: what follows the preface line
PayloadBytes == StreamBytes(AfterFirstLine(inTokens, TRUE))

PrefaceFirstAndOnce ==
    \A s \in Streams :
        /\ drv[s].at \in {"prefaced", "copying", "closed"} => drv[s].log # <<>>
        /\ drv[s].log # <<>> =>
               /\ drv[s].log[1].what = "preface"
               /\ ~drv[s].log[1].wrapped
               /\ drv[s].log[1].bytes = encodePreface(PrefaceOf(drvCfg.driver))
        /\ \A i \in 2..Len(drv[s].log) :
               drv[s].log[i].what # "preface" /\ drv[s].log[1].ok

\* serve_listen with encryption enabled wrote the preface and then an AEAD
\* frame on its second stream
PrefaceFirstCase ==
    /\ drvCfg = [driver |-> "serve_listen", enabled |-> TRUE]
    /\ Len(drv[2].log) = 2
    /\ drv[2].log[1].what = "preface" /\ drv[2].log[1].ok
    /\ drv[2].log[2].what = "frame" /\ drv[2].log[2].wrapped

(***************************************************************************)
(* Properties of WSConn.Close                                              *)
(***************************************************************************)
\* C33 (as claimed): when Close has returned the socket is closed, whatever
\* sending the close frame gave, and websocket.ErrCloseSent is not the error
\* returned.
CloseClosesSocket ==
    wsClose.returned =>
        /\ wsClose.socketClosed
        /\ wsClose.err # "ErrCloseSent"

(***************************************************************************)
(* Properties of the bytes WSConn.Read returns                             *)
(***************************************************************************)
\* the payloads of the binary messages among the first k arrived, in order
RECURSIVE BinaryBytes(_)
BinaryBytes(k) ==
    IF k = 0 THEN <<>>
    ELSE IF wsArrived[k].mt = "binary"
       THEN BinaryBytes(k - 1) \o BytesOf(k, 0, wsArrived[k].len)
    ELSE BinaryBytes(k - 1)

\* C32: the bytes the Read calls returned so far are the first bytes of the
\* payloads of the binary messages taken in arrival order, all of them once
\* no message is left unread; a Read returns 0 and nil only for an empty
\* buffer.
WsBytesInOrder ==
    /\ Len(wsBytes) <= Len(BinaryBytes(Len(wsArrived)))
    /\ wsBytes = SubSeq(BinaryBytes(Len(wsArrived)), 1, Len(wsBytes))
    /\ (wsIn = <<>> /\ (wsCur.set => wsCur.left = 0)) =>
           wsBytes = BinaryBytes(Len(wsArrived))
    /\ (wsRes.op = "Read" /\ wsRes.n = 0 /\ wsRes.err = "nil") => wsRes.size = 0

\* a binary, a text and a binary message arrived; the Read calls returned
\* the four bytes of the two binary ones
WsBytesCase ==
    /\ Len(wsArrived) = 3
    /\ wsArrived[1].mt = "binary" /\ wsArrived[2] = [mt |-> "text", len |-> 2]
    /\ wsArrived[3].mt = "binary"
    /\ wsBytes = <<<<1, 1>>, <<1, 2>>, <<3, 1>>, <<3, 2>>>>

(***************************************************************************)
(* Properties of UDP frames on the encrypted stream                        *)
(***************************************************************************)
\* C40: with a reader that holds the writer's key, the i-th readUDPPacket
\* returns the i-th packet sent, never meets the short-buffer error, and
\* takes two Read calls; the i-th writeUDPPacket makes two frames, the header
\* and the payload, sealed under two consecutive counter values.
SealedRoundTrip ==
    (peer[1].made /\ peer[1].key = aead[1].key) =>
        /\ \A i \in 1..Len(udpGot) :
               /\ ~udpGot[i].short
               /\ (i <= Len(udpSent) /\ udpSent[i].err = "nil") =>
                      /\ udpGot[i].err = "nil"
                      /\ udpGot[i].pkt = udpSent[i].payload
                      /\ udpGot[i].reads = 2
        /\ \A i \in 1..Len(udpSent) :
               udpSent[i].err = "nil" =>
                   /\ Len(seals) >= 2 * i
                   /\ seals[2 * i - 1].pt = PutBigEndian(Len(udpSent[i].payload), 2)
                   /\ seals[2 * i].pt = udpSent[i].payload
                   /\ seals[2 * i - 1].nonce = Nonce(2 * i - 2)
                   /\ seals[2 * i].nonce = Nonce(2 * i - 1)
        /\ (udpSent # <<>> /\ udpSent[Len(udpSent)].err = "nil") =>
               aead[1].encCtr = 2 * Len(udpSent)

\* a packet of 256 bytes and then one of one byte were sent and read back
SealedRoundTripCase ==
    /\ peer[1].made /\ peer[1].key = aead[1].key
    /\ Len(udpSent) = 2 /\ Len(udpGot) = 2
    /\ Len(udpSent[1].payload) = 256 /\ Len(udpSent[2].payload) = 1
    /\ udpGot[1].err = "nil" /\ udpGot[2].err = "nil"
    /\ udpGot[1].pkt = udpSent[1].payload /\ udpGot[2].pkt = udpSent[2].payload

(***************************************************************************)
(* Properties of frames in transit                                         *)
(***************************************************************************)
Refused(r) == r.n = 0 /\ r.err # "nil" /\ r.data = <<>>

\* a frame altered in transit is refused when the reader reaches it
AlteredRefused ==
    (transit.op = "alter" /\ Len(got[1]) >= transit.at) =>
        /\ Refused(got[1][transit.at])
        /\ got[1][transit.at].err = "message authentication failed"

\* C31 (as claimed): a reader made with a different PSK or a different
\* tunnel id gets an error and no plaintext from every Read, and so does any
\* reader from a frame whose nonce or ciphertext was altered in transit.
ForeignFrameRefused ==
    /\ \A w \in Streams :
           (peer[w].made /\ (peer[w].secret # encPSK \/ peer[w].tid # tunnelID)) =>
               \A i \in 1..Len(got[w]) : Refused(got[w][i])
    /\ AlteredRefused

\* C31 (amended): a reader whose PSK followed by its tunnel id differs from
\* the writer's PSK followed by the writer's tunnel id gets an error and no
\* plaintext from every Read, and so does any reader from a frame whose
\* nonce or ciphertext was altered in transit.
ForeignFrameRefused_ByKey ==
    /\ \A w \in Streams :
           (peer[w].made /\ peer[w].secret \o peer[w].tid # encPSK \o tunnelID) =>
               \A i \in 1..Len(got[w]) : Refused(got[w][i])
    /\ AlteredRefused

\* a reader with another PSK and the writer's tunnel id has refused both
\* frames written
ForeignFrameCase ==
    /\ peer[1].made /\ peer[1].secret # encPSK /\ peer[1].tid = tunnelID
    /\ transit = NoTransit
    /\ Len(got[1]) = 2 /\ Len(sent[1]) = 2
    /\ got[1][1].err = "message authentication failed"
    /\ got[1][2].err = "message authentication failed"

\* a reader with the writer's key has read the first frame and refused the
\* second, whose tag was altered
AlteredFrameCase ==
    /\ peer[1].made /\ peer[1].key = aead[1].key
    /\ transit.op = "alter" /\ transit.at = 2 /\ transit.field = "tag"
    /\ Len(got[1]) = 2
    /\ got[1][1].err = "nil" /\ got[1][2].err = "message authentication failed"

\* C39: a reader holding the writer's key returns the plaintext of every
\* unaltered frame it reaches, whatever the frame's nonce and wherever the
\* frame stands on the stream: a frame delivered twice is read twice, two
\* frames delivered in the other order are read in that order.
ReplayAccepted ==
    (peer[1].made /\ peer[1].key = aead[1].key /\ WholeFrames(1)) =>
        \A i \in 1..Len(got[1]) :
            (/\ i <= Len(WireOrder(1))
             /\ ~(transit.op = "alter" /\ transit.at = i)
             /\ got[1][i].size >= Len(seals[WireOrder(1)[i]].pt))
            => /\ got[1][i].err = "nil"
               /\ got[1][i].data = seals[WireOrder(1)[i]].pt
               /\ got[1][i].n = Len(got[1][i].data)

\* the one frame written was delivered twice and read twice
ReplayAcceptedCase ==
    /\ peer[1].made /\ peer[1].key = aead[1].key
    /\ transit.op = "replay"
    /\ Len(sent[1]) = 1 /\ Len(sent[1][1].pt) = MaxPtLen
    /\ Len(got[1]) = 2
    /\ got[1][1].err = "nil" /\ got[1][2].err = "nil"
    /\ got[1][1].data = sent[1][1].pt /\ got[1][2].data = sent[1][1].pt

(***************************************************************************)
(* Properties of a parallel echo run                                       *)
(***************************************************************************)
\* C22: a parallel run returns only after all its stream tasks have finished;
\* it returns nil exactly when none of them failed (over QUIC a task whose
\* echo read met end-of-stream has not failed), and otherwise the error of a
\* task that failed.
ParallelAllOrError ==
    parRet.done =>
        /\ \A i \in Tasks : parTask[i].at = "done"
        /\ parRet.err = NoTaskErr <=> \A i \in Tasks : ~parTask[i].failed
        /\ \A i \in Tasks : (parRun = "quic" /\ parTask[i].eof) => ~parTask[i].failed
        /\ parRet.err # NoTaskErr =>
               /\ parRet.err.task \in Tasks
               /\ parTask[parRet.err.task].failed
               /\ parRet.err = retErr[parRet.err.task]

\* a QUIC run has returned nil with a task whose echo read met end-of-stream
ParallelAllOrErrorCase ==
    /\ parRet.done /\ parRet.err = NoTaskErr
    /\ parRun = "quic"
    /\ \E i \in Tasks : parTask[i].eof

(***************************************************************************)
(* Properties of one bridged connection                                    *)
(***************************************************************************)
BothClosed == hdEnds["a"].closed /\ hdEnds["b"].closed
PipeReturned == hdMode = "listen" /\ hdMain \in {"deferred", "closing", "returned"}
Completions == Cardinality({d \in Directions : hdCopy[d] = "done"})

\* C26: PipeStreams returns once the first copy direction has finished,
\* without waiting for the other and without closing an endpoint; each copy
\* goroutine sends one completion, and never finds the channel full; after the
\* caller has closed both endpoints both goroutines end.
PipeReturnsOnFirst ==
    /\ [](hdMode = "listen" =>
            /\ hdDone <= DoneCap
            /\ \A d \in Directions : hdCopy[d] = "send" => hdDone < DoneCap
            /\ hdDone + (IF PipeReturned THEN 1 ELSE 0) = Completions
            /\ PipeReturned => Completions >= 1)
    /\ [][(hdMain = "wait" /\ hdMain' # "wait") => hdEnds' = hdEnds]_vars
    /\ ((hdMode = "listen" /\ Completions >= 1) ~> PipeReturned)
    /\ ((hdMode = "listen" /\ BothClosed) ~> (Completions = 2))

\* PipeStreams has returned while the other direction still copies and no
\* endpoint is closed
PipeReturnsOnFirstCase ==
    /\ hdMode = "listen" /\ hdMain = "deferred"
    /\ \E d \in Directions : hdCopy[d] = "copy"
    /\ \A e \in Ends : ~hdEnds[e].closed

\* C25 (as claimed): once either endpoint is at end-of-stream the client
\* closes both the stream and the local connection, whatever the other
\* endpoint does, in serve_listen and in serve_incoming.
ClosedWhenEitherEnds ==
    \A e \in Ends : hdEnds[e].eof ~> BothClosed

\* C24 (as claimed): once serve_incoming has dialed the backend, the copy
\* from the backend to the stream starts (unless the handler has returned),
\* without the remote stream reaching end-of-stream first, also when payload
\* is buffered in the preface reader.
BridgesBothWays ==
    (hdMode = "incoming") ~>
        (hdCopy["a->b"] # "none" \/ hdMain \in {"deferred", "closing", "returned"})

(***************************************************************************)
(* Properties of the UDP forwarder                                         *)
(***************************************************************************)
\* a loop sent at most one error, and is done exactly when it sent one
SendsOnce(loop) == loop.sends <= 1 /\ (loop.at = "done" <=> loop.sends = 1)

\* C21: each loop sends exactly one error, on its first failure, and then
\* ends; no send finds the channel full; the driver returns the error that
\* was sent first; and once it has returned and its deferred closes ran, both
\* loops end.
FirstErrorReturned ==
    /\ [](/\ SendsOnce(fwUp) /\ SendsOnce(fwDown)
          /\ (fwUp.at = "send" \/ fwDown.at = "send") => Len(errCh) < ErrChCap
          /\ fwUp.at \notin {"send", "done"} => fwUp.err = "nil"
          /\ fwDown.at \notin {"send", "done"} => fwDown.err = "nil"
          /\ fwMain.at = "returned" =>
                 /\ fwUp.rank = 1 => fwMain.err = fwUp.err
                 /\ fwDown.rank = 1 => fwMain.err = fwDown.err
                 /\ fwUp.rank = 1 \/ fwDown.rank = 1)
    /\ (fwMain.closed ~> (fwUp.at = "done" /\ fwDown.at = "done"))

\* the stream ended first: the driver returned EOF, and the local loop then
\* ended on the closed socket with its error left in the channel
FirstErrorCase ==
    /\ fwMain.at = "returned" /\ fwMain.err = "EOF"
    /\ fwDown.rank = 1 /\ fwUp.rank = 2
    /\ fwUp.at = "done" /\ fwDown.at = "done"
    /\ errCh = <<"use of closed network connection">>

\* C28: each frame read from the stream goes to the address that lastSrc
\* held when the loop looked, which is the source of the local packet stored
\* last; while lastSrc is nil the frame is dropped and the loop reads on;
\* lastSrc is read only with the lock held shared and written only with it
\* held exclusively.
LastSrcUnderLock ==
    /\ [](/\ ~(lastSrcMu.w /\ lastSrcMu.r > 0)
          /\ fwUp.at = "store" => lastSrcMu.w
          /\ fwDown.at = "load" => lastSrcMu.r > 0
          /\ fwSent.sent => fwSent.dst # NoAddr
          /\ fwSent.frame <= fwDown.frame)
    /\ [][/\ lastSrc' # lastSrc => (fwUp.at = "store" /\ lastSrc' = fwUp.src)
          /\ (fwDown.at = "load" /\ fwDown'.at # "load") =>
                 /\ fwDown'.dst = lastSrc
                 /\ lastSrc = NoAddr =>
                        /\ fwDown'.at = "read"
                        /\ fwSent' = [frame |-> fwDown.frame, dst |-> NoAddr,
                                      sent |-> FALSE]
                 /\ lastSrc # NoAddr => fwDown'.at = "write"
          /\ (fwDown.at = "write" /\ fwDown'.at # "write") =>
                 /\ fwSent' = [frame |-> fwDown.frame, dst |-> fwDown.dst,
                               sent |-> fwDown'.at = "read"]]_vars

\* the first frame was dropped for want of an address, the second was sent to
\* the source of the packet stored in between
LastSrcCase ==
    /\ fwDown.drops = 1
    /\ fwSent = [frame |-> 2, dst |-> 2, sent |-> TRUE]
    /\ lastSrc = 2

\* a payload that does not fit in 16 bits: writeUDPPacket fails and writes nothing
OversizeRefused ==
    \A failAt \in 0..2 :
        /\ writeUDPPacket(Payload(MaxUint16 + 1, 0), failAt).err # "nil"
        /\ writeUDPPacket(Payload(MaxUint16 + 1, 0), failAt).out = <<>>

\* C29: every frame the local-to-stream loop emits (fwOut holds the latest
\* one) has a header equal to the length of its payload, in 1..65535 (a frame whose payload write failed
\* ends the loop with its header alone); empty local reads are never framed;
\* a payload that does not fit in 16 bits is refused before any byte.
FramesWellFormed ==
    /\ OversizeRefused
    /\ fwOut # NoFrame =>
           /\ Len(fwOut.hdr) = 2
           /\ BigEndian(fwOut.hdr) \in 1..MaxUint16
           /\ \/ fwOut.n = BigEndian(fwOut.hdr)
              \/ fwOut.n = 0 /\ fwUp.at \in {"send", "done"} /\ fwUp.err = "write"

\* an empty local read was skipped and a packet of 65535 bytes was framed
FramesCase ==
    /\ fwUp.reads = 2 /\ fwUp.at = "read"
    /\ fwOut = [hdr |-> <<255, 255>>, n |-> MaxUint16]

(***************************************************************************)
(* Properties of the UDP framing                                           *)
(***************************************************************************)
\* where the i-th frame written starts on the stream
RECURSIVE FrameStart(_)
FrameStart(i) ==
    IF i <= 1 THEN 0 ELSE FrameStart(i - 1) + 2 + Len(udpSent[i - 1].payload)

\* C10: the i-th read, the reads before it having returned the frames before
\* it, returns the i-th payload and consumes 2 + its length when that payload
\* has 1..65535 bytes and its frame arrived whole; it returns an error when the
\* frame's length header is 0 or when the frame was cut short.
UdpRoundTrip ==
    \A i \in 1..Len(udpGot) :
        (i <= Len(udpSent) /\ \A j \in 1..(i - 1) : udpGot[j].err = "nil") =>
            LET P == udpSent[i].payload
                whole == Len(udpWire) >= FrameStart(i) + 2 + Len(P)
            IN  /\ (udpSent[i].err = "nil" /\ whole /\ Len(P) >= 1 /\ Len(P) <= 65535)
                     => /\ udpGot[i].err = "nil"
                        /\ udpGot[i].pkt = P
                        /\ udpGot[i].used = 2 + Len(P)
                /\ (udpSent[i].err = "nil" /\ Len(P) = 0) => udpGot[i].err # "nil"
                /\ (ToUint16SizeOk(Len(P)) /\ ~whole) => udpGot[i].err # "nil"

\* two frames were written back to back and both were read back whole, the
\* second from where the first ended
UdpRoundTripCase ==
    /\ Len(udpGot) >= 2 /\ Len(udpSent) >= 2
    /\ Len(udpSent[1].payload) = MaxSmallLen
    /\ udpGot[1].err = "nil" /\ udpGot[1].pkt = udpSent[1].payload
    /\ udpGot[2].err = "nil" /\ udpGot[2].pkt = udpSent[2].payload
    /\ Len(udpSent[2].payload) >= 1
    /\ udpGot[2].used = 2 + Len(udpSent[2].payload)
    /\ udpPos = Len(udpWire)

====
